---- MODULE Spec2Model ----
(***************************************************************************)
(* Session lifecycle of the focus timer: the timer engine, the session     *)
(* manager, the distraction tracker and the storage adapter, with the      *)
(* background service worker's listeners as the operations.                *)
(*                                                                         *)
(* Time is counted in units of 500 ms, so that Math.floor and Math.round   *)
(* of a millisecond difference divided by 1000 differ as they do in the    *)
(* code.  A duration of d seconds is 2*d units.                            *)
(*                                                                         *)
(* Every listener is an async function.  A task is one running listener;   *)
(* one step of a task is the completion of the storage operation it is     *)
(* awaiting followed by the synchronous code up to the next await.  A      *)
(* listener that begins by awaiting a read starts with that read.  Storage *)
(* round trips are short against the 500 ms unit: the clock advances only  *)
(* between listeners.                                                      *)
(***************************************************************************)
EXTENDS Integers, Sequences, FiniteSets, TLC

\* ---------------------------------------------------------------- bounds
MaxNow      == 4     \* wall clock horizon, in 500 ms units
MaxIds      == 2     \* createSession calls
ConcNow     == 2     \* wall clock horizon when listeners interleave
ConcIds     == 1     \* start() calls when listeners interleave
MaxHistory  == 2     \* completions entered
MaxTasks    == 2     \* listeners in flight at once
MaxSwitches == 1     \* tab switches counted on one session
MaxVisits   == 1     \* distraction visits counted on one session
TwoVisits   == 2     \* the same when one session is watched alone
MaxOverlaps == 1     \* listeners started while another is in flight
LiveNow     == 6     \* wall clock horizon when wake-ups are best-effort
BusNow      == 2     \* wall clock horizon while handlers come and go
MaxHandlers == 7     \* handler identities handed out, built-in ones included
MaxAppends  == 3     \* sessions appended to a history that is nearly full
MaxBoots    == 1     \* runs of bootstrap() after the one at load

Durations == {1, 2}              \* msg.duration values offered to start()
Tabs      == {1, 2}
Urls      == { <<"www", "youtube", "com">>, <<"example", "org">> }

\* ------------------------------------------------------- pure functions
Max(a, b) == IF a >= b THEN a ELSE b
Min(a, b) == IF a <= b THEN a ELSE b

\* Math.floor(ms / 1000) and Math.round(ms / 1000) for ms >= 0, ms in units
FloorSec(units) == units \div 2
RoundSec(units) == (units + 1) \div 2
\* Math.round(seconds / 60) for seconds >= 0
RoundMin(seconds) == (seconds + 30) \div 60

QUALITY_TIERS == << [label |-> "Deep Work",  min |-> 90],
                    [label |-> "Focused",    min |-> 70],
                    [label |-> "Fragmented", min |-> 40],
                    [label |-> "Distracted", min |-> 0] >>

\* session.f || 0: a field that is missing reads as 0
Field(session, f) == IF f \in DOMAIN session THEN session[f] ELSE 0

\* !session.interrupted: a missing flag reads as not interrupted
Uninterrupted(session) ==
  IF "interrupted" \in DOMAIN session THEN ~ session["interrupted"] ELSE TRUE

\* calcFocusScore without the final clamp
calcFocusScore_unclamped(session) ==
  100 - Field(session, "tabSwitchCount") * 5
      - Field(session, "distractionVisits") * 10
      - RoundMin(Field(session, "distractionSeconds"))
      + (IF Uninterrupted(session) THEN 10 ELSE 0)

\* calcFocusScore taking the magnitude of a negative total instead of 0
calcFocusScore_mirrored(session) ==
  LET raw == calcFocusScore_unclamped(session)
  IN  Min(100, IF raw < 0 THEN 0 - raw ELSE raw)

calcFocusScore(session) ==
  LET raw == 100 - Field(session, "tabSwitchCount") * 5
                 - Field(session, "distractionVisits") * 10
                 - RoundMin(Field(session, "distractionSeconds"))
                 + (IF Uninterrupted(session) THEN 10 ELSE 0)
  IN  Max(0, Min(100, raw))

\* getTier comparing with > instead of >=
getTier_strict(s) ==
  LET hits == { i \in DOMAIN QUALITY_TIERS : s > QUALITY_TIERS[i].min }
  IN  IF hits = {} THEN QUALITY_TIERS[Len(QUALITY_TIERS)]
      ELSE QUALITY_TIERS[CHOOSE i \in hits : \A j \in hits : i <= j]

\* QUALITY_TIERS.find(t => score >= t.min), else the last tier
getTier(s) ==
  LET hits == { i \in DOMAIN QUALITY_TIERS : s >= QUALITY_TIERS[i].min }
  IN  IF hits = {} THEN QUALITY_TIERS[Len(QUALITY_TIERS)]
      ELSE QUALITY_TIERS[CHOOSE i \in hits : \A j \in hits : i <= j]

score(session) ==
  LET s == calcFocusScore(session)
  IN  [score |-> s, qualityLabel |-> getTier(s).label]

\* ------------------------------------------------------ session objects
NullSession ==
  [ id |-> 0, startTime |-> 0, duration |-> 0, tabSwitchCount |-> 0,
    distractionVisits |-> 0, distractionSeconds |-> 0,
    lastDistractionDomain |-> <<>>, interrupted |-> FALSE ]

createSession(duration, id, t) ==
  [ id |-> id, startTime |-> t, duration |-> duration, tabSwitchCount |-> 0,
    distractionVisits |-> 0, distractionSeconds |-> 0,
    lastDistractionDomain |-> <<>>, interrupted |-> FALSE ]

recordTabSwitch(session) ==
  [session EXCEPT !.tabSwitchCount = @ + 1]

recordDistractionVisit(session, domain) ==
  [session EXCEPT !.distractionVisits = @ + 1, !.lastDistractionDomain = domain]

addDistractionTime(session, seconds) ==
  [session EXCEPT !.distractionSeconds = @ + seconds]

markInterrupted(session) ==
  [session EXCEPT !.interrupted = TRUE]

\* ------------------------------------------------------- storage adapter
NullReflection == [sessionId |-> 0, score |-> 0, qualityLabel |-> "", duration |-> 0]

defaultState ==
  [ status |-> "idle", duration |-> 25 * 60, remaining |-> 25 * 60,
    startedAt |-> -1, pausedAt |-> -1, elapsedBeforePause |-> 0,
    currentSession |-> NullSession, pendingReflection |-> NullReflection ]

\* { ...current, ...patch }
Merge(current, patch) ==
  [f \in DOMAIN current |-> IF f \in DOMAIN patch THEN patch[f] ELSE current[f]]

HistoryCap == 200

\* the cap applied at the wrong end: the newest entries go
Capped_keepOldest(list) ==
  IF Len(list) > HistoryCap THEN SubSeq(list, 1, HistoryCap) ELSE list

\* sessions.push(session); splice(0, length - 200) when longer than the cap
Capped(list) ==
  IF Len(list) > HistoryCap
  THEN SubSeq(list, Len(list) - HistoryCap + 1, Len(list))
  ELSE list

DEFAULT_SITES ==
  { <<"youtube", "com">>, <<"twitter", "com">>, <<"x", "com">>,
    <<"facebook", "com">>, <<"instagram", "com">>, <<"reddit", "com">>,
    <<"tiktok", "com">>, <<"netflix", "com">>, <<"twitch", "tv">>,
    <<"hulu", "com">>, <<"pinterest", "com">>, <<"snapchat", "com">>,
    <<"linkedin", "com">> }

\* ------------------------------------------------- distraction tracking
\* A URL is modelled by the labels of its host name.
extractDomain(url) ==
  IF Len(url) > 0 /\ url[1] = "www" THEN Tail(url) ELSE url

\* domain === s || domain.endsWith('.' + s)
isDistracting(url, sites) ==
  LET domain == extractDomain(url)
  IN  /\ Len(domain) > 0
      /\ \E s \in sites :
           /\ Len(s) <= Len(domain)
           /\ SubSeq(domain, Len(domain) - Len(s) + 1, Len(domain)) = s

\* ------------------------------------------------------------- calendar
\* An instant is a number of hours since a Monday 00:00 UTC.  A time zone
\* has one UTC offset before an instant of change and one from it on; both
\* are the same in a zone without daylight saving.  A calendar date stands
\* for its YYYY-MM-DD string: the number of days since the first Monday.
offsetAt(zone, t) == IF t < zone.change THEN zone.before ELSE zone.after

\* the local wall clock of an instant, in hours
wall(zone, t) == t + offsetAt(zone, t)

\* Date.prototype.getHours and getDay (0 = Sunday), and the local date
getHours(zone, t) == wall(zone, t) % 24
getDay(zone, t)   == ((wall(zone, t) \div 24) + 1) % 7
localDate(zone, t) == wall(zone, t) \div 24

\* the instant a local wall clock reading stands for; a reading that occurs
\* twice or not at all around the change is read with the earlier offset
fromWall(zone, w) ==
  IF w - zone.before < zone.change THEN w - zone.before
  ELSE IF w - zone.after >= zone.change THEN w - zone.after
  ELSE w - zone.before

\* d.setDate(d.getDate() - days): the same wall clock reading, days earlier
setDateBack(zone, t, days) == fromWall(zone, wall(zone, t) - 24 * days)

\* toISOString().slice(0, 10): the date in UTC
isoDate(t) == t \div 24

_todayKey(zone, t) == isoDate(t)

_weekKey(zone, t) ==
  isoDate(setDateBack(zone, t, (getDay(zone, t) + 6) % 7))

\* ---------------------------------------------------------- daily stats
\* storage.getValue(KEYS.STATS, null) when nothing is stored
NullStats ==
  [ date |-> -1, totalFocusMinutes |-> 0, sessionsCompleted |-> 0,
    totalTabSwitches |-> 0, totalDistractionVisits |-> 0,
    totalDistractionSeconds |-> 0, streak |-> 0 ]

_calcStreak(prev, zone, t) ==
  IF prev = NullStats THEN 0
  ELSE LET yKey == isoDate(setDateBack(zone, t, 1))
       IN  IF prev.date = yKey /\ prev.totalFocusMinutes >= 30
           THEN Field(prev, "streak") + 1
           ELSE 0

\* getDailyStats(): what it returns and what the store holds afterwards
getDailyStats(stored, zone, t) ==
  LET today == _todayKey(zone, t)
  IN  IF stored = NullStats \/ stored.date # today
      THEN LET fresh == [ date |-> today, totalFocusMinutes |-> 0,
                          sessionsCompleted |-> 0, totalTabSwitches |-> 0,
                          totalDistractionVisits |-> 0,
                          totalDistractionSeconds |-> 0,
                          streak |-> _calcStreak(stored, zone, t) ]
           IN  [ returned |-> fresh, stored |-> fresh ]
      ELSE [ returned |-> stored, stored |-> stored ]

\* ---------------------------------------------------------- weekly data
NoDays == [ d \in {} |-> 0 ]

\* r[KEYS.WEEKLY] when nothing is stored
NullWeekly == [ weekStart |-> -1, days |-> NoDays ]

\* getWeeklyData carrying the day buckets over into the new week
getWeeklyData_keepDays(stored, zone, t) ==
  LET wk == _weekKey(zone, t)
  IN  IF stored = NullWeekly \/ stored.weekStart # wk
      THEN [ returned |-> [ weekStart |-> wk, days |-> stored.days ],
             stored   |-> [ weekStart |-> wk, days |-> stored.days ] ]
      ELSE [ returned |-> stored, stored |-> stored ]

\* getWeeklyData(): what it returns and what the store holds afterwards;
\* days maps a day key to the focus minutes of its bucket
getWeeklyData(stored, zone, t) ==
  LET wk == _weekKey(zone, t)
  IN  IF stored = NullWeekly \/ stored.weekStart # wk
      THEN [ returned |-> [ weekStart |-> wk, days |-> NoDays ],
             stored   |-> [ weekStart |-> wk, days |-> NoDays ] ]
      ELSE [ returned |-> stored, stored |-> stored ]

\* ------------------------------------------------------ insights engine
\* An array cell that holds no finite number: NaN, a hole, a string.
NaN == -1

Zeros(len) == [ i \in 1 .. len |-> 0 ]

defaultPatterns ==
  [ focusMinutesByHour |-> Zeros(24), focusMinutesByDay |-> Zeros(7),
    distractionByHour |-> Zeros(24), sessionsByHour |-> Zeros(24),
    scoresByHour |-> Zeros(24) ]

\* A startTime is a number of hours (kind "number"), or missing, or NaN.
_isValidTimestamp(ts) == ts.kind = "number" /\ ts.v > 0

_safeMins(rawSeconds) == IF rawSeconds <= 0 THEN 0 ELSE RoundMin(rawSeconds)

_ensureArrayLength(arr, len) ==
  [ i \in 1 .. len |-> IF i <= Len(arr) /\ arr[i] # NaN THEN arr[i] ELSE 0 ]

\* the hardened engine: recordPattern(session, score) over the stored
\* patterns, in a time zone, at instant t
recordPattern(session, sc, stored, zone, t) ==
  LET ts == session.startTime
  IN  IF ~ _isValidTimestamp(ts)
      THEN [ wrote |-> FALSE, stored |-> stored, at |-> -1 ]
      ELSE
        LET hour == getHours(zone, ts.v) + 1
            day  == getDay(zone, ts.v) + 1
            focusMins    == _safeMins(session.duration)
            distractMins == _safeMins(session.distractionSeconds)
            safeScore    == Max(0, Min(100, sc))
            fh == _ensureArrayLength(stored.focusMinutesByHour, 24)
            fd == _ensureArrayLength(stored.focusMinutesByDay, 7)
            dh == _ensureArrayLength(stored.distractionByHour, 24)
            sh == _ensureArrayLength(stored.sessionsByHour, 24)
            ch == _ensureArrayLength(stored.scoresByHour, 24)
        IN  [ wrote |-> TRUE, at |-> ts.v,
              stored |->
                [ focusMinutesByHour |-> [fh EXCEPT ![hour] = @ + focusMins],
                  focusMinutesByDay  |-> [fd EXCEPT ![day] = @ + focusMins],
                  distractionByHour  |-> [dh EXCEPT ![hour] = @ + distractMins],
                  sessionsByHour     |-> [sh EXCEPT ![hour] = @ + 1],
                  scoresByHour       |-> [ch EXCEPT ![hour] = @ + safeScore] ] ]

\* arr[i] = (arr[i] || 0) + inc on a JavaScript array, i counted from 1: a
\* cell beyond the end is created, with holes in between
addAt(arr, i, inc) ==
  [ k \in 1 .. Max(Len(arr), i) |->
      IF k = i
      THEN (IF k <= Len(arr) /\ arr[k] # NaN THEN arr[k] ELSE 0) + inc
      ELSE IF k <= Len(arr) THEN arr[k] ELSE NaN ]

\* the engine the service worker imports: _recordPattern(session, score)
_recordPattern(session, sc, stored, zone, t) ==
  LET ts      == session.startTime
      falsy   == ts.kind # "number" \/ ts.v = 0
      instant == IF falsy THEN t ELSE ts.v
      hour == getHours(zone, instant) + 1
      day  == getDay(zone, instant) + 1
      focusMins    == RoundMin(session.duration)
      distractMins == RoundMin(session.distractionSeconds)
  IN  [ wrote |-> TRUE, at |-> instant,
        stored |->
          [ focusMinutesByHour |-> addAt(stored.focusMinutesByHour, hour, focusMins),
            focusMinutesByDay  |-> addAt(stored.focusMinutesByDay, day, focusMins),
            distractionByHour  |-> addAt(stored.distractionByHour, hour, distractMins),
            sessionsByHour     |-> addAt(stored.sessionsByHour, hour, 1),
            scoresByHour       |-> addAt(stored.scoresByHour, hour, sc) ] ]

\* --------------------------------------------------------- suggestions
\* What a storage read gives: it fails (chrome.storage.local.get rejects),
\* or it answers with a value.  A stored patterns object is a function from
\* field names to arrays and may lack fields; a stored session holds a
\* duration in seconds, a startTime and, once scored, a score.
ReadFails == [ ok |-> FALSE ]
Answer(value) == [ ok |-> TRUE, value |-> value ]

\* Math.max(...arr) > threshold: false for an empty array and for an array
\* with a cell that is no number
exceeds(arr, threshold) ==
  /\ Len(arr) > 0
  /\ \A i \in 1 .. Len(arr) : arr[i] # NaN
  /\ \E i \in 1 .. Len(arr) : arr[i] > threshold

\* list.reduce((a, s) => a + s.score, 0)
RECURSIVE sumScores(_)
sumScores(list) ==
  IF list = << >> THEN 0 ELSE Head(list)["score"] + sumScores(Tail(list))

\* the score trend rule: the means of the last three and of the three before
\* them, compared in exact arithmetic
trendRule(list) ==
  IF Len(list) < 6 THEN << >>
  ELSE LET n      == Len(list)
           recent == sumScores(SubSeq(list, n - 2, n))
           older  == sumScores(SubSeq(list, n - 5, n - 3))
       IN  IF recent < older - 30 THEN << "declining_score" >>
           ELSE IF recent > older + 30 THEN << "improving_score" >>
           ELSE << >>

\* the long session rule: long.length / sessions.length > 0.6, avg < 65
dragRule(list) ==
  IF Len(list) < 4 THEN << >>
  ELSE LET long == SelectSeq(list, LAMBDA x : x["duration"] >= 3600)
       IN  IF 5 * Len(long) > 3 * Len(list)
              /\ sumScores(long) < 65 * Len(long)
           THEN << "session_length" >>
           ELSE << >>

\* out.slice(0, 4)
slice4(out) == SubSeq(out, 1, Min(Len(out), 4))

NoSuggestions == [ threw |-> TRUE, list |-> << >> ]

\* generateSuggestions of the engine the service worker imports, returning
\* the whole list
generateSuggestions_noSlice(patterns, history) ==
  IF ~ patterns.ok \/ ~ history.ok THEN NoSuggestions
  ELSE LET p    == patterns.value
           list == SelectSeq(history.value, LAMBDA x : "score" \in DOMAIN x)
       IN  IF { "focusMinutesByHour", "distractionByHour",
                "focusMinutesByDay" } \subseteq DOMAIN p
           THEN [ threw |-> FALSE,
                  list |->
                    (IF exceeds(p["focusMinutesByHour"], 0)
                       THEN << "peak_time" >> ELSE << >>)
                    \o (IF exceeds(p["distractionByHour"], 5)
                          THEN << "distraction_spike" >> ELSE << >>)
                    \o (IF exceeds(p["focusMinutesByDay"], 0)
                          THEN << "best_day" >> ELSE << >>)
                    \o trendRule(list) \o dragRule(list) ]
           ELSE NoSuggestions

\* generateSuggestions of the engine the service worker imports: the reads
\* are not guarded, and Math.max(...p.focusMinutesByHour) throws a TypeError
\* when the array is missing.  threw: the promise is rejected.
generateSuggestions(patterns, history) ==
  IF ~ patterns.ok \/ ~ history.ok THEN NoSuggestions
  ELSE LET p    == patterns.value
           list == SelectSeq(history.value, LAMBDA x : "score" \in DOMAIN x)
       IN  IF { "focusMinutesByHour", "distractionByHour",
                "focusMinutesByDay" } \subseteq DOMAIN p
           THEN [ threw |-> FALSE,
                  list |-> slice4(
                    (IF exceeds(p["focusMinutesByHour"], 0)
                       THEN << "peak_time" >> ELSE << >>)
                    \o (IF exceeds(p["distractionByHour"], 5)
                          THEN << "distraction_spike" >> ELSE << >>)
                    \o (IF exceeds(p["focusMinutesByDay"], 0)
                          THEN << "best_day" >> ELSE << >>)
                    \o trendRule(list) \o dragRule(list)) ]
           ELSE NoSuggestions

_isValidSession(x) ==
  _isValidTimestamp(x["startTime"]) /\ "score" \in DOMAIN x

\* Array.isArray(p.f) ? p.f : []
arrayOr(p, f) == IF f \in DOMAIN p THEN p[f] ELSE << >>

\* generateSuggestions of the hardened engine: the reads are inside
\* try/catch and a missing array counts as empty
InsightsEngine_generateSuggestions(patterns, history) ==
  IF ~ patterns.ok \/ ~ history.ok THEN [ threw |-> FALSE, list |-> << >> ]
  ELSE LET p    == patterns.value
           list == SelectSeq(history.value, _isValidSession)
       IN  [ threw |-> FALSE,
             list |-> slice4(
               (IF exceeds(arrayOr(p, "focusMinutesByHour"), 0)
                  THEN << "peak_time" >> ELSE << >>)
               \o (IF exceeds(arrayOr(p, "distractionByHour"), 5)
                     THEN << "distraction_spike" >> ELSE << >>)
               \o (IF exceeds(arrayOr(p, "focusMinutesByDay"), 0)
                     THEN << "best_day" >> ELSE << >>)
               \o trendRule(list) \o dragRule(list)) ]

\* the getSuggestions command: what sendResponse is called with, from
\* _handleMessage or from the catch of the message listener
getSuggestions(result) ==
  IF result.threw THEN [ error |-> "message" ]
  ELSE [ suggestions |-> result.list ]

\* ----------------------------------------------------------- event bus
HOOKS ==
  { "onSessionStart", "onSessionEnd", "onDistraction", "onScoreCalculated",
    "onReflectionSaved", "onFocusModeEnabled", "onFocusModeDisabled",
    "onTick" }

\* What a handler function does when it is called: returns, throws, returns
\* a promise that rejects, or calls the unsubscribe function on() gave it.
\* "notfn" is a hook map entry that is not a function.
HandlerKinds == { "ok", "throws", "rejects", "unsubscribes" }

\* the handlers the feature modules subscribe in bootstrap()
TrackerHandler  == [id |-> 1, source |-> "internal", fn |-> "leaveDistraction"]
InsightsHandler == [id |-> 2, source |-> "internal", fn |-> "recordPattern"]
InjectHandler   == [id |-> 3, source |-> "internal", fn |-> "ok"]
CleanupHandler  == [id |-> 4, source |-> "internal", fn |-> "ok"]

\* handlers are told apart by identity (indexOf); the next one handed out
FirstFreeHandler == CleanupHandler.id + 1

\* _registry after bootstrap(): distraction.init, insights.init, visual.init
bootRegistry ==
  [ h \in HOOKS |->
      CASE h = "onSessionEnd"        -> << TrackerHandler, InsightsHandler >>
        [] h = "onFocusModeEnabled"  -> << InjectHandler >>
        [] h = "onFocusModeDisabled" -> << CleanupHandler >>
        [] OTHER                     -> << >> ]

\* _wrap with the try/catch left out
safeHandler_noCatch(h) ==
  [ logged |-> FALSE, thrown |-> h.fn = "throws",
    unhandled |-> h.fn = "rejects" ]

\* _wrap: safeHandler calls fn(payload) inside try/catch and drops what fn
\* returns.  A throw is caught and logged; a rejected promise is neither
\* awaited nor given a catch handler.
safeHandler(h) ==
  [ logged |-> h.fn = "throws", thrown |-> FALSE,
    unhandled |-> h.fn = "rejects" ]

\* off(hookName, handler): indexOf and splice
off(reg, hook, id) ==
  IF hook \notin DOMAIN reg THEN reg
  ELSE [reg EXCEPT ![hook] = SelectSeq(@, LAMBDA x : x.id # id)]

NoEmit ==
  [ calls |-> << >>, logged |-> << >>, unhandled |-> << >>,
    propagated |-> FALSE, returned |-> 0 ]

\* The for-of loop of emit over the live handler array: position i, the
\* array as it is now.  Gives the registry afterwards, the handlers called
\* in order, the errors logged as <<source, hook>>, the rejections left
\* unhandled, whether an error reached the emitter, and the value returned.
RECURSIVE emitLoop(_, _, _, _)
emitLoop(hook, reg, i, acc) ==
  IF i > Len(reg[hook])
  THEN [ registry |-> reg, calls |-> acc.calls, logged |-> acc.logged,
         unhandled |-> acc.unhandled, propagated |-> FALSE,
         returned |-> Len(reg[hook]) ]
  ELSE LET h   == reg[hook][i]
           out == safeHandler(h)
           acc1 == [ acc EXCEPT
                       !.calls = Append(@, h.id),
                       !.logged = IF out.logged
                                  THEN Append(@, << h.source, hook >>) ELSE @,
                       !.unhandled = IF out.unhandled
                                     THEN Append(@, h.id) ELSE @ ]
       IN  IF out.thrown
           THEN [ registry |-> reg, calls |-> acc1.calls,
                  logged |-> acc1.logged, unhandled |-> acc1.unhandled,
                  propagated |-> TRUE, returned |-> 0 ]
           ELSE emitLoop(hook,
                         IF h.fn = "unsubscribes" THEN off(reg, hook, h.id)
                                                  ELSE reg,
                         i + 1, acc1)

emit(hook, reg) ==
  IF hook \notin DOMAIN reg \/ Len(reg[hook]) = 0
  THEN [ registry |-> reg, calls |-> << >>, logged |-> << >>,
         unhandled |-> << >>, propagated |-> FALSE, returned |-> 0 ]
  ELSE emitLoop(hook, reg, 1, NoEmit)

\* on(hookName, handler)
on(reg, next, hook, fn) ==
  IF hook \notin DOMAIN reg
  THEN [ registry |-> reg, next |-> next ]
  ELSE [ registry |-> [reg EXCEPT ![hook] =
                         Append(@, [id |-> next, source |-> "internal",
                                    fn |-> fn])],
         next |-> next + 1 ]

\* the loop of registerPlugin over Object.entries(plugin.hooks)
RECURSIVE registerHooks(_, _, _, _)
registerHooks(reg, next, name, entries) ==
  IF entries = << >> THEN [ registry |-> reg, next |-> next ]
  ELSE LET e == Head(entries)
       IN  IF e.hook \notin DOMAIN reg \/ e.fn = "notfn"
           THEN registerHooks(reg, next, name, Tail(entries))
           ELSE registerHooks(
                  [reg EXCEPT ![e.hook] =
                     Append(@, [id |-> next, source |-> name, fn |-> e.fn])],
                  next + 1, name, Tail(entries))

\* registerPlugin without the _plugins.has(plugin.name) check
registerPlugin_noDuplicateCheck(reg, table, next, plugin) ==
  IF plugin.name = "" \/ plugin.version = ""
  THEN [ ok |-> FALSE, registry |-> reg, plugins |-> table, next |-> next ]
  ELSE LET r == registerHooks(reg, next, plugin.name, plugin.hooks)
       IN  [ ok |-> TRUE, registry |-> r.registry,
             plugins |-> table \cup { plugin.name }, next |-> r.next ]

\* registerPlugin(plugin): the value returned, and the registry, the plugin
\* table and the next handler identity afterwards
registerPlugin(reg, table, next, plugin) ==
  IF plugin.name = "" \/ plugin.version = "" \/ plugin.name \in table
  THEN [ ok |-> FALSE, registry |-> reg, plugins |-> table, next |-> next ]
  ELSE LET r == registerHooks(reg, next, plugin.name, plugin.hooks)
       IN  [ ok |-> TRUE, registry |-> r.registry,
             plugins |-> table \cup { plugin.name }, next |-> r.next ]

\* the init calls of bootstrap(): distraction.init, insights.init and
\* visual.init subscribe their handlers with on()
bootstrap(reg, next) ==
  LET a == on(reg, next, "onSessionEnd", "leaveDistraction")
      b == on(a.registry, a.next, "onSessionEnd", "recordPattern")
      c == on(b.registry, b.next, "onFocusModeEnabled", "ok")
  IN  on(c.registry, c.next, "onFocusModeDisabled", "ok")

\* the calls of _recordPattern a dispatch on session end starts: one for
\* every handler called that insights.init subscribed, each about to read
\* the pattern store
RECURSIVE recordings(_, _, _)
recordings(reg, calls, ended) ==
  IF calls = << >> THEN << >>
  ELSE LET mine == SelectSeq(reg["onSessionEnd"],
                             LAMBDA h : h.id = Head(calls)
                                        /\ h.fn = "recordPattern")
       IN  (IF mine = << >> THEN << >>
            ELSE << [ pc |-> "get", ended |-> ended, p |-> defaultPatterns ] >>)
           \o recordings(reg, Tail(calls), ended)

\* the pattern store under observation takes the calls in; any other
\* probe is left alone
dispatched(p, reg, calls, ended) ==
  IF p.fn # "patterns" THEN p
  ELSE [p EXCEPT !.recs = @ \o recordings(reg, calls, ended)]

\* ----------------------------------------------------------- the state
VARIABLES
  now,               \* Date.now(), in 500 ms units
  focusState,        \* chrome.storage.local[focusState]
  sessions,          \* chrome.storage.local[sessions]
  stats,             \* chrome.storage.local[focusStats]
  weekly,            \* chrome.storage.local[weeklyData].days[today]
  alarms,            \* scheduled chrome alarms
  distractionStart,  \* _distractionStart, -1 for null
  distractionTabId,  \* _distractionTabId, 0 for null
  tasks,             \* the listeners in flight
  nextId,            \* the next fresh session id
  emitted,           \* session events emitted on the bus: how many per
                     \* hook, and those of the latest start or completion
  overlaps,          \* listeners that started while another was in flight
  registry,          \* _registry: hook name -> handlers, in order
  plugins,           \* _plugins: names of the registered plugins
  nextHandler,       \* the next fresh handler identity
  probe              \* a function under test: its name, arguments and result

vars == << now, focusState, sessions, stats, weekly, alarms,
           distractionStart, distractionTabId, tasks,
           nextId, emitted, overlaps, registry, plugins, nextHandler,
           probe >>

histVars == << sessions, stats, weekly, emitted >>
distVars == << distractionStart, distractionTabId >>
busVars  == << registry, plugins, nextHandler >>

SpawnSlot == MaxTasks + 1
Slots     == 1 .. SpawnSlot

NoPatch == [none |-> 0]

IdleTask ==
  [ pc |-> "idle", op |-> "none", seen |-> "", patch |-> NoPatch,
    next |-> defaultState, ses |-> NullSession, lst |-> <<>>, n |-> 0,
    tab |-> 0, url |-> <<>> ]

NoAlarms == [focusComplete |-> -1, focusTick |-> FALSE]

freshStats ==
  [ totalFocusMinutes |-> 0, sessionsCompleted |-> 0, totalTabSwitches |-> 0,
    totalDistractionVisits |-> 0, totalDistractionSeconds |-> 0, streak |-> 0 ]

freshDay ==
  [ focusMinutes |-> 0, sessions |-> 0, distractionMinutes |-> 0,
    totalScore |-> 0, scoreCount |-> 0,
    qualityCounts |-> [ q \in {"Deep Work", "Focused", "Fragmented", "Distracted"} |-> 0 ] ]

NoProbe == [fn |-> "none"]

\* the service worker after bootstrap, over a stored session history
BootedOver(history) ==
  /\ now = 0
  /\ focusState = defaultState
  /\ sessions = history
  /\ stats = freshStats
  /\ weekly = freshDay
  /\ alarms = NoAlarms
  /\ distractionStart = -1
  /\ distractionTabId = 0
  /\ tasks = [s \in Slots |-> IdleTask]
  /\ nextId = Len(history) + 1
  /\ emitted = [onScoreCalculated |-> 0, onSessionEnd |-> 0, order |-> << >>]
  /\ overlaps = 0
  /\ registry = bootRegistry
  /\ plugins = {}
  /\ nextHandler = FirstFreeHandler

\* the service worker after bootstrap, with an empty store
Booted == BootedOver(<< >>)

Init ==
  /\ Booted
  /\ probe = NoProbe

\* ---------------------------------------------------------- scheduling
Live == { s \in Slots : tasks[s].pc # "idle" }

\* A listener is admitted while fewer than conc tasks are in flight.
Admit(conc) ==
  /\ Cardinality(Live) < conc
  /\ Live # {} => overlaps < MaxOverlaps
  /\ overlaps' = IF Live = {} THEN overlaps ELSE overlaps + 1

NewSlot ==
  CHOOSE s \in 1 .. MaxTasks :
    /\ tasks[s].pc = "idle"
    /\ \A r \in 1 .. MaxTasks : tasks[r].pc = "idle" => s <= r

Advance(horizon) ==
  /\ now < horizon
  /\ Live = {}
  /\ now' = now + 1
  /\ UNCHANGED << focusState, histVars, alarms, distVars, tasks, nextId, overlaps >>
  /\ UNCHANGED << busVars, probe >>

\* chrome.alarms.create for both alarms
setAlarms(durationSeconds) ==
  [focusComplete |-> now + 2 * durationSeconds, focusTick |-> TRUE]

\* storage.patchState: the read half
patchRead(s, pcNext) ==
  tasks' = [tasks EXCEPT ![s].next = Merge(focusState, tasks[s].patch),
                         ![s].pc = pcNext]

\* ------------------------------------------------------------- start()
MsgStart(conc, ids, d) ==
  /\ Admit(conc)
  /\ nextId <= ids
  /\ LET session == createSession(d, nextId, now)
         patch == [ status |-> "running", duration |-> d, remaining |-> d,
                    startedAt |-> now, pausedAt |-> -1,
                    elapsedBeforePause |-> 0,
                    pendingReflection |-> NullReflection,
                    currentSession |-> session ]
     IN  tasks' = [tasks EXCEPT ![NewSlot] =
                     [IdleTask EXCEPT !.pc = "start_write", !.op = "start",
                                      !.next = Merge(focusState, patch),
                                      !.n = d]]
  /\ nextId' = nextId + 1
  /\ UNCHANGED << now, focusState, histVars, alarms, distVars >>
  /\ UNCHANGED << busVars, probe >>

\* start() enabling focus mode before it announces the session
startEmits_swapped(reg) ==
  LET e1 == emit("onFocusModeEnabled", reg)
      e2 == emit("onSessionStart", e1.registry)
  IN  [ registry |-> e2.registry,
        order |-> << "onFocusModeEnabled", "onSessionStart" >> ]

\* the emits of start(), in the order they are called; a hook is emitted
\* when no error of the one before reached the emitter
startEmits(reg) ==
  LET e1 == emit("onSessionStart", reg)
      e2 == emit("onFocusModeEnabled", e1.registry)
  IN  IF e1.propagated
      THEN [ registry |-> e1.registry, order |-> << "onSessionStart" >> ]
      ELSE [ registry |-> e2.registry,
             order |-> << "onSessionStart", "onFocusModeEnabled" >> ]

\* the write of patchState, then _setAlarms and the two emits
StartWrite(s) ==
  /\ tasks[s].pc = "start_write"
  /\ focusState' = tasks[s].next
  /\ alarms' = setAlarms(tasks[s].n)
  /\ registry' = startEmits(registry).registry
  /\ emitted' = [emitted EXCEPT !.order = startEmits(registry).order]
  /\ tasks' = [tasks EXCEPT ![s] = IdleTask]
  /\ UNCHANGED << now, sessions, stats, weekly, distVars, nextId, overlaps >>
  /\ UNCHANGED << plugins, nextHandler, probe >>

\* ------------------------------------------------- _leaveDistraction()
\* What a task does once the procedure it awaited has returned.
Continue(t) ==
  CASE t.op = "reset" -> [IdleTask EXCEPT !.pc = "reset_get", !.op = "reset"]
    [] t.op = "tab"   -> [IdleTask EXCEPT !.pc = "tab_url", !.op = "tab",
                                          !.tab = t.tab]
    [] OTHER          -> IdleTask

\* The synchronous head of _leaveDistraction, run by task record t: returns
\* at once when no interval is open, else takes the elapsed seconds, closes
\* the interval and awaits getState.
BeginLeave_unguarded(t) ==
  [t EXCEPT !.pc = "L_get", !.n = RoundSec(now - distractionStart)]

BeginLeave(t) ==
  IF distractionStart = -1
  THEN Continue(t)
  ELSE [t EXCEPT !.pc = "L_get", !.n = RoundSec(now - distractionStart)]

CloseInterval ==
  /\ distractionStart' = -1
  /\ distractionTabId' = 0

LeaveGet(s) ==
  /\ tasks[s].pc = "L_get"
  /\ tasks' = [tasks EXCEPT ![s] =
       IF focusState.currentSession.id = 0
       THEN Continue(tasks[s])
       ELSE [tasks[s] EXCEPT
               !.pc = "L_read",
               !.patch = [currentSession |->
                 addDistractionTime(focusState.currentSession, tasks[s].n)]]]
  /\ UNCHANGED << now, focusState, histVars, alarms, distVars, nextId, overlaps >>
  /\ UNCHANGED << busVars, probe >>

LeaveRead(s) ==
  /\ tasks[s].pc = "L_read"
  /\ patchRead(s, "L_write")
  /\ UNCHANGED << now, focusState, histVars, alarms, distVars, nextId, overlaps >>
  /\ UNCHANGED << busVars, probe >>

LeaveWrite(s) ==
  /\ tasks[s].pc = "L_write"
  /\ focusState' = tasks[s].next
  /\ tasks' = [tasks EXCEPT ![s] = Continue(tasks[s])]
  /\ UNCHANGED << now, histVars, alarms, distVars, nextId, overlaps >>
  /\ UNCHANGED << busVars, probe >>

\* the contentOverlayReturn message
MsgOverlayReturn(conc) ==
  /\ Admit(conc)
  /\ tasks' = [tasks EXCEPT ![NewSlot] =
                 BeginLeave([IdleTask EXCEPT !.op = "overlay"])]
  /\ CloseInterval
  /\ UNCHANGED << now, focusState, histVars, alarms, nextId >>
  /\ UNCHANGED << busVars, probe >>

\* -------------------------------------------------- enterDistraction()
\* The synchronous head of enterDistraction: opens the interval.
BeginEnter(t, tab, url) ==
  [t EXCEPT !.pc = "E_get", !.tab = tab, !.url = url]

OpenInterval(tab) ==
  /\ distractionStart' = now
  /\ distractionTabId' = tab

EnterGet(s) ==
  /\ tasks[s].pc = "E_get"
  /\ tasks' = [tasks EXCEPT ![s] =
       IF focusState.currentSession.id = 0
       THEN IdleTask
       ELSE [tasks[s] EXCEPT
               !.pc = "E_read",
               !.patch = [currentSession |->
                 recordDistractionVisit(focusState.currentSession,
                                        extractDomain(tasks[s].url))]]]
  /\ UNCHANGED << now, focusState, histVars, alarms, distVars, nextId, overlaps >>
  /\ UNCHANGED << busVars, probe >>

EnterRead(s) ==
  /\ tasks[s].pc = "E_read"
  /\ patchRead(s, "E_write")
  /\ UNCHANGED << now, focusState, histVars, alarms, distVars, nextId, overlaps >>
  /\ UNCHANGED << busVars, probe >>

EnterWrite(s) ==
  /\ tasks[s].pc = "E_write"
  /\ focusState' = tasks[s].next
  /\ tasks' = [tasks EXCEPT ![s] = IdleTask]
  /\ UNCHANGED << now, histVars, alarms, distVars, nextId, overlaps >>
  /\ UNCHANGED << busVars, probe >>

\* ------------------------------------------------------------- pause()
pauseElapsed(state, t) ==
  FloorSec(t - state.startedAt) + state.elapsedBeforePause

\* pause() forgetting the seconds run before an earlier pause
pauseRemaining_noCarry(state, t) ==
  Max(0, state.duration - FloorSec(t - state.startedAt))

pauseRemaining(state, t) ==
  Max(0, state.duration - pauseElapsed(state, t))

MsgPause(conc) ==
  /\ Admit(conc)
  /\ tasks' =
       IF focusState.status # "running" THEN tasks
       ELSE [tasks EXCEPT ![NewSlot] =
              [IdleTask EXCEPT
                 !.pc = "pause_read", !.op = "pause",
                 !.patch =
                   [ status |-> "paused", pausedAt |-> now,
                     remaining |-> pauseRemaining(focusState, now),
                     elapsedBeforePause |-> pauseElapsed(focusState, now),
                     currentSession |->
                       IF focusState.currentSession.id # 0
                       THEN markInterrupted(focusState.currentSession)
                       ELSE NullSession ]]]
  /\ UNCHANGED << now, focusState, histVars, alarms, distVars, nextId >>
  /\ UNCHANGED << busVars, probe >>

PauseRead(s) ==
  /\ tasks[s].pc = "pause_read"
  /\ patchRead(s, "pause_write")
  /\ UNCHANGED << now, focusState, histVars, alarms, distVars, nextId, overlaps >>
  /\ UNCHANGED << busVars, probe >>

PauseWrite(s) ==
  /\ tasks[s].pc = "pause_write"
  /\ focusState' = tasks[s].next
  /\ alarms' = NoAlarms
  /\ tasks' = [tasks EXCEPT ![s] = IdleTask]
  /\ UNCHANGED << now, histVars, distVars, nextId, overlaps >>
  /\ UNCHANGED << busVars, probe >>

\* ------------------------------------------------------------ resume()
MsgResume(conc) ==
  /\ Admit(conc)
  /\ tasks' =
       IF focusState.status # "paused" THEN tasks
       ELSE [tasks EXCEPT ![NewSlot] =
              [IdleTask EXCEPT
                 !.pc = "resume_read", !.op = "resume",
                 !.n = focusState.remaining,
                 !.patch = [ status |-> "running", startedAt |-> now,
                             pausedAt |-> -1 ]]]
  /\ UNCHANGED << now, focusState, histVars, alarms, distVars, nextId >>
  /\ UNCHANGED << busVars, probe >>

ResumeRead(s) ==
  /\ tasks[s].pc = "resume_read"
  /\ patchRead(s, "resume_write")
  /\ UNCHANGED << now, focusState, histVars, alarms, distVars, nextId, overlaps >>
  /\ UNCHANGED << busVars, probe >>

ResumeWrite(s) ==
  /\ tasks[s].pc = "resume_write"
  /\ focusState' = tasks[s].next
  /\ alarms' = setAlarms(tasks[s].n)
  /\ tasks' = [tasks EXCEPT ![s] = IdleTask]
  /\ UNCHANGED << now, histVars, distVars, nextId, overlaps >>
  /\ UNCHANGED << busVars, probe >>

\* ------------------------------------------------------------- reset()
\* the reset message: leaveDistraction() is awaited, then timer.reset()
MsgReset(conc) ==
  /\ Admit(conc)
  /\ tasks' = [tasks EXCEPT ![NewSlot] =
                 BeginLeave([IdleTask EXCEPT !.op = "reset"])]
  /\ CloseInterval
  /\ UNCHANGED << now, focusState, histVars, alarms, nextId >>
  /\ UNCHANGED << busVars, probe >>

\* reset() keeping a session that is current
resetPatch_keepSession(state) ==
  [defaultState EXCEPT !.duration = state.duration,
                       !.remaining = state.duration,
                       !.currentSession = state.currentSession]

\* the patch of reset(): the default state with the configured duration
resetPatch(state) ==
  [defaultState EXCEPT !.duration = state.duration,
                       !.remaining = state.duration]

ResetGet(s) ==
  /\ tasks[s].pc = "reset_get"
  /\ alarms' = NoAlarms
  /\ tasks' = [tasks EXCEPT ![s] =
       [tasks[s] EXCEPT
          !.pc = "reset_read",
          !.patch = resetPatch(focusState)]]
  /\ UNCHANGED << now, focusState, histVars, distVars, nextId, overlaps >>
  /\ UNCHANGED << busVars, probe >>

ResetRead(s) ==
  /\ tasks[s].pc = "reset_read"
  /\ patchRead(s, "reset_write")
  /\ UNCHANGED << now, focusState, histVars, alarms, distVars, nextId, overlaps >>
  /\ UNCHANGED << busVars, probe >>

ResetWrite(s) ==
  /\ tasks[s].pc = "reset_write"
  /\ focusState' = tasks[s].next
  /\ tasks' = [tasks EXCEPT ![s] = IdleTask]
  /\ UNCHANGED << now, histVars, alarms, distVars, nextId, overlaps >>
  /\ UNCHANGED << busVars, probe >>

\* ---------------------------------------------------------- complete()
\* The synchronous head of complete(): _clearAlarms(), then await getState.
BeginComplete(t) == [IdleTask EXCEPT !.pc = "c_get", !.op = t.op]

\* tasks that have begun completeSession and not yet stored its entry
Appending == { s \in Slots : tasks[s].pc \in {"c_sess_read", "c_sess_write"} }

\* { ...session, endTime, duration: actualDuration, score, qualityLabel,
\*   completed: true }
finalize(session, actualDuration, t) ==
  [ id |-> session.id, startTime |-> session.startTime,
    duration |-> actualDuration,
    tabSwitchCount |-> session.tabSwitchCount,
    distractionVisits |-> session.distractionVisits,
    distractionSeconds |-> session.distractionSeconds,
    lastDistractionDomain |-> session.lastDistractionDomain,
    interrupted |-> session.interrupted,
    endTime |-> t, score |-> score(session).score,
    qualityLabel |-> score(session).qualityLabel, completed |-> TRUE ]

\* complete() reads the state and takes over the current session, or makes
\* one up when there is none; completeSession scores it at once.
CompleteGet(s) ==
  /\ tasks[s].pc = "c_get"
  /\ Len(sessions) + Cardinality(Appending) < MaxHistory
  /\ focusState.currentSession.id = 0 => nextId <= MaxIds
  /\ LET fresh   == focusState.currentSession.id = 0
         session == IF fresh
                    THEN createSession(focusState.duration, nextId, now)
                    ELSE focusState.currentSession
     IN  /\ tasks' = [tasks EXCEPT ![s] =
              [tasks[s] EXCEPT
                 !.pc = "c_sess_read",
                 !.seen = focusState.status,
                 !.ses = finalize(session, focusState.duration, now)]]
         /\ nextId' = IF fresh THEN nextId + 1 ELSE nextId
  /\ UNCHANGED << now, focusState, histVars, alarms, distVars, overlaps >>
  /\ UNCHANGED << busVars, probe >>

\* storage.appendSession: getSessions
CompleteSessRead(s) ==
  /\ tasks[s].pc = "c_sess_read"
  /\ tasks' = [tasks EXCEPT ![s].lst = sessions, ![s].pc = "c_sess_write"]
  /\ UNCHANGED << now, focusState, histVars, alarms, distVars, nextId, overlaps >>
  /\ UNCHANGED << busVars, probe >>

\* storage.appendSession: push, cap, setValue
CompleteSessWrite(s) ==
  /\ tasks[s].pc = "c_sess_write"
  /\ sessions' = Capped(Append(tasks[s].lst, tasks[s].ses))
  /\ tasks' = [tasks EXCEPT ![s].lst = <<>>, ![s].pc = "c_stats"]
  /\ UNCHANGED << now, focusState, stats, weekly, emitted, alarms,
                  distVars, nextId, overlaps >>
  /\ UNCHANGED << busVars, probe >>

\* _updateDailyStats; the stored record is today's
CompleteStats(s) ==
  /\ tasks[s].pc = "c_stats"
  /\ LET c == tasks[s].ses
     IN  stats' = [stats EXCEPT
           !.totalFocusMinutes       = @ + RoundMin(c.duration),
           !.sessionsCompleted       = @ + 1,
           !.totalTabSwitches        = @ + c.tabSwitchCount,
           !.totalDistractionVisits  = @ + c.distractionVisits,
           !.totalDistractionSeconds = @ + c.distractionSeconds]
  /\ tasks' = [tasks EXCEPT ![s].pc = "c_weekly"]
  /\ UNCHANGED << now, focusState, sessions, weekly, emitted, alarms,
                  distVars, nextId, overlaps >>
  /\ UNCHANGED << busVars, probe >>

\* _updateWeeklyData, then the two emits of completeSession, dispatched
\* through the registry.  The distraction tracker's onSessionEnd handler
\* starts _leaveDistraction and is not awaited, and so are the calls of
\* _recordPattern the insights handlers make.  Then complete() goes on to
\* patchState; an error that reached the emitter would end it here.
CompleteWeekly(s) ==
  /\ tasks[s].pc = "c_weekly"
  /\ distractionStart # -1 => tasks[SpawnSlot].pc = "idle"
  /\ LET c  == tasks[s].ses
         e1 == emit("onScoreCalculated", registry)
         e2 == IF e1.propagated THEN [NoEmit EXCEPT !.propagated = TRUE]
                                     @@ [registry |-> e1.registry]
               ELSE emit("onSessionEnd", e1.registry)
         leaves == /\ distractionStart # -1
                   /\ \E k \in 1 .. Len(e2.calls) :
                        e2.calls[k] = TrackerHandler.id
     IN  /\ weekly' = [weekly EXCEPT
               !.focusMinutes       = @ + RoundMin(c.duration),
               !.sessions           = @ + 1,
               !.distractionMinutes = @ + RoundMin(c.distractionSeconds),
               !.totalScore         = @ + c.score,
               !.scoreCount         = @ + 1,
               !.qualityCounts[c.qualityLabel] = @ + 1]
         /\ emitted' = [emitted EXCEPT
               !.onScoreCalculated = @ + 1,
               !.onSessionEnd = IF e1.propagated THEN @ ELSE @ + 1,
               !.order = IF e1.propagated
                         THEN << "onScoreCalculated" >>
                         ELSE << "onScoreCalculated", "onSessionEnd" >>]
         /\ registry' = e2.registry
         /\ tasks' =
              [ x \in Slots |->
                  IF x = s
                  THEN IF e2.propagated THEN IdleTask
                       ELSE [tasks[s] EXCEPT
                          !.pc = "c_read",
                          !.patch =
                            [defaultState EXCEPT
                               !.duration = c.duration,
                               !.remaining = c.duration,
                               !.pendingReflection =
                                 [ sessionId |-> c.id, score |-> c.score,
                                   qualityLabel |-> c.qualityLabel,
                                   duration |-> c.duration ]]]
                  ELSE IF x = SpawnSlot /\ leaves
                  THEN BeginLeave([IdleTask EXCEPT !.op = "onSessionEnd",
                                                  !.seen = tasks[s].seen])
                  ELSE tasks[x] ]
         /\ IF leaves THEN CloseInterval ELSE UNCHANGED distVars
         /\ probe' = dispatched(probe, registry, e2.calls,
                                [ session |-> c, score |-> c.score ])
  /\ UNCHANGED << now, focusState, sessions, stats, alarms,
                  nextId, overlaps, plugins, nextHandler >>

CompleteRead(s) ==
  /\ tasks[s].pc = "c_read"
  /\ patchRead(s, "c_write")
  /\ UNCHANGED << now, focusState, histVars, alarms, distVars, nextId, overlaps >>
  /\ UNCHANGED << busVars, probe >>

CompleteWrite(s) ==
  /\ tasks[s].pc = "c_write"
  /\ focusState' = tasks[s].next
  /\ tasks' = [tasks EXCEPT ![s] = IdleTask]
  /\ UNCHANGED << now, histVars, alarms, distVars, nextId,
                  overlaps >>
  /\ UNCHANGED << busVars, probe >>

\* chrome.alarms.onAlarm, name = focusComplete: the one-shot alarm is due
OnAlarmComplete(conc) ==
  /\ alarms.focusComplete # -1
  /\ now >= alarms.focusComplete
  /\ Admit(conc)
  /\ alarms' = NoAlarms
  /\ tasks' = [tasks EXCEPT ![NewSlot] =
                 BeginComplete([IdleTask EXCEPT !.op = "alarmComplete"])]
  /\ UNCHANGED << now, focusState, histVars, distVars, nextId >>
  /\ UNCHANGED << busVars, probe >>

\* --------------------------------------------------------------- tick()
\* tick() without the floor at 0
tickRemaining_unclamped(state, t) ==
  state.duration - (FloorSec(t - state.startedAt) + state.elapsedBeforePause)

\* tick() trusting the stored value
tickRemaining_stored(state, t) ==
  state.remaining

\* tick() counting down the stored value
tickRemaining_decrement(state, t) ==
  Max(0, state.remaining - 1)

tickRemaining(state, t) ==
  Max(0, state.duration
           - (FloorSec(t - state.startedAt) + state.elapsedBeforePause))

\* chrome.alarms.onAlarm, name = focusTick.  Session lengths are scaled down
\* to a few seconds, so the one-minute period is left open: a tick may come
\* at any time while the alarm is scheduled.
OnAlarmTick(conc) ==
  /\ alarms.focusTick
  /\ Admit(conc)
  /\ tasks' = [tasks EXCEPT ![NewSlot] =
                 [IdleTask EXCEPT !.pc = "tick_get", !.op = "alarmTick"]]
  /\ UNCHANGED << now, focusState, histVars, alarms, distVars,
                  nextId >>
  /\ UNCHANGED << busVars, probe >>

TickGet(s) ==
  /\ tasks[s].pc = "tick_get"
  /\ tasks' = [tasks EXCEPT ![s] =
       IF focusState.status # "running"
       THEN IdleTask
       ELSE [tasks[s] EXCEPT
               !.pc = "tick_read",
               !.n = tickRemaining(focusState, now),
               !.patch = [remaining |-> tickRemaining(focusState, now)]]]
  /\ UNCHANGED << now, focusState, histVars, alarms, distVars,
                  nextId, overlaps >>
  /\ UNCHANGED << busVars, probe >>

TickRead(s) ==
  /\ tasks[s].pc = "tick_read"
  /\ patchRead(s, "tick_write")
  /\ UNCHANGED << now, focusState, histVars, alarms, distVars, nextId, overlaps >>
  /\ UNCHANGED << busVars, probe >>

TickWrite(s) ==
  /\ tasks[s].pc = "tick_write"
  /\ focusState' = tasks[s].next
  /\ IF tasks[s].n <= 0
     THEN /\ alarms' = NoAlarms
          /\ tasks' = [tasks EXCEPT ![s] = BeginComplete(tasks[s])]
     ELSE /\ alarms' = alarms
          /\ tasks' = [tasks EXCEPT ![s] = IdleTask]
  /\ UNCHANGED << now, histVars, distVars, nextId, overlaps >>
  /\ UNCHANGED << busVars, probe >>

\* ------------------------------------------------------------ recover()
\* recover() forgetting the seconds run before a pause
recoverRemaining_sinceStart(state, t) ==
  Max(0, state.duration - FloorSec(t - state.startedAt))

recoverRemaining(state, t) ==
  Max(0, state.duration
           - (FloorSec(t - state.startedAt) + state.elapsedBeforePause))

\* chrome.runtime.onStartup: the service worker is loaded afresh, so the
\* module state of the distraction tracker is initial; bootstrap() is
\* awaited, then recover().  The subscriptions that this run of bootstrap()
\* adds to the bus are the action Bootstrap.
Startup(conc) ==
  /\ Live = {}
  /\ Admit(conc)
  /\ CloseInterval
  /\ tasks' = [tasks EXCEPT ![NewSlot] =
                 [IdleTask EXCEPT !.pc = "recover_get", !.op = "startup"]]
  /\ UNCHANGED << now, focusState, histVars, alarms, nextId >>
  /\ UNCHANGED << busVars, probe >>

RecoverGet(s) ==
  /\ tasks[s].pc = "recover_get"
  /\ LET remaining == recoverRemaining(focusState, now)
     IN  IF focusState.status # "running"
         THEN /\ tasks' = [tasks EXCEPT ![s] = IdleTask]
              /\ alarms' = alarms
         ELSE IF remaining <= 0
         THEN /\ tasks' = [tasks EXCEPT ![s] = BeginComplete(tasks[s])]
              /\ alarms' = NoAlarms
         ELSE /\ tasks' = [tasks EXCEPT ![s] =
                   [tasks[s] EXCEPT !.pc = "recover_read", !.n = remaining,
                                    !.patch = [remaining |-> remaining]]]
              /\ alarms' = alarms
  /\ UNCHANGED << now, focusState, histVars, distVars,
                  nextId, overlaps >>
  /\ UNCHANGED << busVars, probe >>

RecoverRead(s) ==
  /\ tasks[s].pc = "recover_read"
  /\ patchRead(s, "recover_write")
  /\ UNCHANGED << now, focusState, histVars, alarms, distVars, nextId, overlaps >>
  /\ UNCHANGED << busVars, probe >>

RecoverWrite(s) ==
  /\ tasks[s].pc = "recover_write"
  /\ focusState' = tasks[s].next
  /\ alarms' = setAlarms(tasks[s].n)
  /\ tasks' = [tasks EXCEPT ![s] = IdleTask]
  /\ UNCHANGED << now, histVars, distVars, nextId, overlaps >>
  /\ UNCHANGED << busVars, probe >>

\* ------------------------------------------------------- tab activation
\* chrome.tabs.onActivated: the first getState and its guard
TabActivated(conc, tab) ==
  /\ focusState.currentSession.tabSwitchCount < MaxSwitches
  /\ Admit(conc)
  /\ tasks' =
       IF focusState.status # "running" \/ focusState.currentSession.id = 0
       THEN tasks
       ELSE [tasks EXCEPT ![NewSlot] =
              [IdleTask EXCEPT !.pc = "tab_gs", !.op = "tab", !.tab = tab]]
  /\ UNCHANGED << now, focusState, histVars, alarms, distVars, nextId >>
  /\ UNCHANGED << busVars, probe >>

\* the second getState, its guard, recordTabSwitch
TabGs(s) ==
  /\ tasks[s].pc = "tab_gs"
  /\ tasks' = [tasks EXCEPT ![s] =
       IF focusState.currentSession.id = 0
       THEN IdleTask
       ELSE [tasks[s] EXCEPT
               !.pc = "tab_read",
               !.patch = [currentSession |->
                            recordTabSwitch(focusState.currentSession)]]]
  /\ UNCHANGED << now, focusState, histVars, alarms, distVars, nextId, overlaps >>
  /\ UNCHANGED << busVars, probe >>

TabRead(s) ==
  /\ tasks[s].pc = "tab_read"
  /\ patchRead(s, "tab_write")
  /\ UNCHANGED << now, focusState, histVars, alarms, distVars, nextId, overlaps >>
  /\ UNCHANGED << busVars, probe >>

\* the write of patchState, then leaveDistraction() begins
TabWrite(s) ==
  /\ tasks[s].pc = "tab_write"
  /\ focusState' = tasks[s].next
  /\ tasks' = [tasks EXCEPT ![s] = BeginLeave(tasks[s])]
  /\ CloseInterval
  /\ UNCHANGED << now, histVars, alarms, nextId, overlaps >>
  /\ UNCHANGED << busVars, probe >>

\* chrome.tabs.get answers with the URL the tab shows, which is any URL;
\* getDistractingSites; then enterDistraction() begins when the URL is
\* distracting
TabUrl(s) ==
  /\ tasks[s].pc = "tab_url"
  /\ \E url \in Urls :
     LET tab == tasks[s].tab
     IN  IF isDistracting(url, DEFAULT_SITES)
         THEN /\ tasks' = [tasks EXCEPT ![s] = BeginEnter(tasks[s], tab, url)]
              /\ OpenInterval(tab)
         ELSE /\ tasks' = [tasks EXCEPT ![s] = IdleTask]
              /\ UNCHANGED distVars
  /\ UNCHANGED << now, focusState, histVars, alarms, nextId,
                  overlaps >>
  /\ UNCHANGED << busVars, probe >>

\* ----------------------------------------------------------- navigation
\* chrome.webNavigation.onCommitted for the main frame: getState, the guard
NavAdmit(conc, tab, url, visits) ==
  /\ focusState.currentSession.distractionVisits < visits
  /\ Admit(conc)
  /\ tasks' =
       IF focusState.status # "running" \/ focusState.currentSession.id = 0
       THEN tasks
       ELSE [tasks EXCEPT ![NewSlot] =
              [IdleTask EXCEPT !.pc = "nav_sites", !.op = "nav",
                               !.tab = tab, !.url = url]]
  /\ UNCHANGED << now, focusState, histVars, alarms, distVars, nextId >>
  /\ UNCHANGED << busVars, probe >>

NavCommitted(conc, tab, url) == NavAdmit(conc, tab, url, MaxVisits)

\* getDistractingSites, then the tracker is left or entered
NavSites(s) ==
  /\ tasks[s].pc = "nav_sites"
  /\ LET tab == tasks[s].tab
         url == tasks[s].url
         wasDistracting == distractionTabId = tab
         nowDistracting == isDistracting(url, DEFAULT_SITES)
     IN  IF wasDistracting /\ ~nowDistracting
         THEN /\ tasks' = [tasks EXCEPT ![s] = BeginLeave(tasks[s])]
              /\ CloseInterval
         ELSE IF ~wasDistracting /\ nowDistracting
         THEN /\ tasks' = [tasks EXCEPT ![s] = BeginEnter(tasks[s], tab, url)]
              /\ OpenInterval(tab)
         ELSE /\ tasks' = [tasks EXCEPT ![s] = IdleTask]
              /\ UNCHANGED distVars
  /\ UNCHANGED << now, focusState, histVars, alarms, nextId,
                  overlaps >>
  /\ UNCHANGED << busVars, probe >>

\* ------------------------------------------------------ specifications
Step(s) ==
  \/ StartWrite(s)
  \/ PauseRead(s) \/ PauseWrite(s)
  \/ ResumeRead(s) \/ ResumeWrite(s)
  \/ ResetGet(s) \/ ResetRead(s) \/ ResetWrite(s)
  \/ LeaveGet(s) \/ LeaveRead(s) \/ LeaveWrite(s)
  \/ EnterGet(s) \/ EnterRead(s) \/ EnterWrite(s)
  \/ CompleteGet(s) \/ CompleteSessRead(s) \/ CompleteSessWrite(s)
  \/ CompleteStats(s) \/ CompleteWeekly(s)
  \/ CompleteRead(s) \/ CompleteWrite(s)
  \/ TickGet(s) \/ TickRead(s) \/ TickWrite(s)
  \/ RecoverGet(s) \/ RecoverRead(s) \/ RecoverWrite(s)
  \/ TabGs(s) \/ TabRead(s) \/ TabWrite(s) \/ TabUrl(s)
  \/ NavSites(s)

Listener(conc, ids) ==
  \/ \E d \in Durations : MsgStart(conc, ids, d)
  \/ MsgPause(conc)
  \/ MsgResume(conc)
  \/ MsgReset(conc)
  \/ MsgOverlayReturn(conc)
  \/ OnAlarmComplete(conc)
  \/ OnAlarmTick(conc)
  \/ Startup(conc)
  \/ \E tab \in Tabs : TabActivated(conc, tab)
  \/ \E tab \in Tabs, url \in Urls : NavCommitted(conc, tab, url)

\* listeners interleave at their awaits
Next ==
  \/ Advance(ConcNow)
  \/ Listener(MaxTasks, ConcIds)
  \/ \E s \in Slots : Step(s)

Spec == Init /\ [][Next]_vars

\* every listener runs to its end before the next one starts
NextSeq ==
  \/ Advance(MaxNow)
  \/ Listener(1, MaxIds)
  \/ \E s \in Slots : Step(s)

SpecSeq == Init /\ [][NextSeq]_vars

\* Best-effort wake-ups: a session is started from idle and left alone, the
\* one-shot completion alarm is never delivered, and the periodic tick alarm
\* goes on firing while it is scheduled.  A session starts early enough to
\* expire within the clock's horizon.
StartLive ==
  \E d \in Durations :
    /\ focusState.status = "idle"
    /\ now + 2 * d <= LiveNow
    /\ MsgStart(1, MaxIds, d)

StepLive(s) ==
  \/ StartWrite(s)
  \/ TickGet(s) \/ TickRead(s) \/ TickWrite(s)
  \/ CompleteGet(s) \/ CompleteSessRead(s) \/ CompleteSessWrite(s)
  \/ CompleteStats(s) \/ CompleteWeekly(s)
  \/ CompleteRead(s) \/ CompleteWrite(s)

NextLive ==
  \/ Advance(LiveNow)
  \/ StartLive
  \/ OnAlarmTick(1)
  \/ \E s \in Slots : StepLive(s)

\* the clock advances, the tick alarm fires again and again, and a listener
\* that awaits a storage operation is resumed
SpecLive ==
  /\ Init
  /\ [][NextLive]_vars
  /\ SF_vars(Advance(LiveNow))
  /\ SF_vars(OnAlarmTick(1))
  /\ \A s \in Slots : WF_vars(StepLive(s))

\* ------------------------------------------------- plugins and handlers
PluginNames    == { "", "alpha", "beta" }
PluginVersions == { "", "1.0.0" }

\* plugin.hooks as Object.entries gives it; "bogus" is not a hook
PluginHooks ==
  { << >>,
    << [hook |-> "onSessionEnd", fn |-> "ok"] >>,
    << [hook |-> "onSessionEnd", fn |-> "throws"] >>,
    << [hook |-> "onSessionEnd", fn |-> "rejects"] >>,
    << [hook |-> "bogus", fn |-> "ok"],
       [hook |-> "onSessionEnd", fn |-> "ok"] >>,
    << [hook |-> "onSessionEnd", fn |-> "notfn"],
       [hook |-> "onScoreCalculated", fn |-> "throws"] >>,
    << [hook |-> "onScoreCalculated", fn |-> "ok"],
       [hook |-> "onSessionEnd", fn |-> "throws"] >> }

Plugins ==
  [ name : PluginNames, version : PluginVersions, hooks : PluginHooks ]

SubscribedHooks == { "onSessionEnd", "onScoreCalculated", "bogus" }

RegisterPlugin(plugin) ==
  /\ Live = {}
  /\ LET r == registerPlugin(registry, plugins, nextHandler, plugin)
     IN  /\ r.next - 1 <= MaxHandlers
         /\ registry' = r.registry
         /\ plugins' = r.plugins
         /\ nextHandler' = r.next
  /\ UNCHANGED << now, focusState, histVars, alarms, distVars, tasks,
                  nextId, overlaps, probe >>

On(hook, fn) ==
  /\ Live = {}
  /\ nextHandler <= MaxHandlers
  /\ LET r == on(registry, nextHandler, hook, fn)
     IN  /\ registry' = r.registry
         /\ nextHandler' = r.next
  /\ UNCHANGED << now, focusState, histVars, alarms, distVars, tasks,
                  nextId, overlaps, plugins, probe >>

\* the unsubscribe function on() returned, called between events
Off(hook, id) ==
  /\ Live = {}
  /\ \E k \in 1 .. Len(registry[hook]) :
       /\ registry[hook][k].id = id
       /\ registry[hook][k].source = "internal"
  /\ registry' = off(registry, hook, id)
  /\ UNCHANGED << now, focusState, histVars, alarms, distVars, tasks,
                  nextId, overlaps, plugins, nextHandler, probe >>

StartBus ==
  /\ focusState.status = "idle"
  /\ MsgStart(1, ConcIds, 1)

StepBus(s) ==
  \/ StartWrite(s)
  \/ CompleteGet(s) \/ CompleteSessRead(s) \/ CompleteSessWrite(s)
  \/ CompleteStats(s) \/ CompleteWeekly(s)
  \/ CompleteRead(s) \/ CompleteWrite(s)

\* plugins and subscribers come and go around one session that runs to its
\* completion alarm
NextBus ==
  \/ Advance(BusNow)
  \/ \E plugin \in Plugins : RegisterPlugin(plugin)
  \/ \E hook \in SubscribedHooks, fn \in HandlerKinds : On(hook, fn)
  \/ \E hook \in HOOKS, id \in FirstFreeHandler .. MaxHandlers : Off(hook, id)
  \/ StartBus
  \/ OnAlarmComplete(1)
  \/ \E s \in Slots : StepBus(s)

SpecBus == Init /\ [][NextBus]_vars

\* ------------------------------------------------------------- scoring
\* The scoring engine applied to the metrics a session can hold.  A metrics
\* object may lack any of its fields.
MetricSwitches == { 0, 1, 2, 21 }
MetricVisits   == 0 .. 11
MetricSeconds  == { 0, 29, 30, 89, 90, 180 } \cup { 60 * k : k \in 4 .. 9 }

NoField == [ f \in {} |-> 0 ]
OptField(f, values) == { f :> v : v \in values } \cup { NoField }

Metrics ==
  { a @@ b @@ c @@ d :
      a \in OptField("tabSwitchCount", MetricSwitches),
      b \in OptField("distractionVisits", MetricVisits),
      c \in OptField("distractionSeconds", MetricSeconds),
      d \in OptField("interrupted", BOOLEAN) }

\* sessions as the session manager builds them
ScoredSessions ==
  { [ createSession(dur, 1, 0) EXCEPT
        !.tabSwitchCount = t, !.distractionVisits = v,
        !.distractionSeconds = sec, !.interrupted = i ] :
      dur \in Durations, t \in { 0, 1, 2 }, v \in MetricVisits,
      sec \in { 0, 30, 180 }, i \in BOOLEAN }

InitScore ==
  /\ Booted
  /\ \/ \E m \in Metrics :
          probe = [fn |-> "score", done |-> FALSE, arg |-> m]
     \/ \E ses \in ScoredSessions :
          probe = [fn |-> "completeSession", done |-> FALSE, arg |-> ses]

Frame ==
  UNCHANGED << now, focusState, histVars, alarms, distVars, tasks, nextId,
               overlaps, busVars >>

\* scoring.score(session)
Score ==
  /\ probe.fn = "score" /\ ~ probe.done
  /\ probe' = [fn |-> "score", done |-> TRUE, arg |-> probe.arg,
               out |-> score(probe.arg)]
  /\ Frame

\* the completed object completeSession builds from scoring.score(session)
Finalize ==
  /\ probe.fn = "completeSession" /\ ~ probe.done
  /\ probe' = [fn |-> "completeSession", done |-> TRUE, arg |-> probe.arg,
               out |-> finalize(probe.arg, probe.arg.duration, now)]
  /\ Frame

NextScore == Score \/ Finalize

SpecScore == InitScore /\ [][NextScore]_vars

\* ------------------------------------------------------ a long history
\* The store of a user with many past sessions, and sessions completed one
\* after the other on top of it.
Past(k) == finalize(createSession(1, k, 0), 1, 0)

StoredHistories ==
  { [ k \in 1 .. n |-> Past(k) ] : n \in HistoryCap - MaxAppends .. HistoryCap }

InitHistory ==
  /\ \E h \in StoredHistories : BootedOver(h)
  /\ probe = NoProbe

\* completeSession(session, actualDuration) up to its call of appendSession
BeginAppend(d) ==
  /\ Live = {}
  /\ nextId <= HistoryCap + MaxAppends
  /\ tasks' = [tasks EXCEPT ![NewSlot] =
       [IdleTask EXCEPT
          !.pc = "c_sess_read", !.op = "completeSession", !.seen = "running",
          !.ses = finalize(createSession(d, nextId, now), d, now)]]
  /\ nextId' = nextId + 1
  /\ UNCHANGED << now, focusState, histVars, alarms, distVars, overlaps,
                  busVars, probe >>

StepHistory(s) ==
  \/ CompleteSessRead(s) \/ CompleteSessWrite(s)
  \/ CompleteStats(s) \/ CompleteWeekly(s)
  \/ CompleteRead(s) \/ CompleteWrite(s)

NextHistory ==
  \/ \E d \in Durations : BeginAppend(d)
  \/ \E s \in Slots : StepHistory(s)

SpecHistory == InitHistory /\ [][NextHistory]_vars

\* ------------------------------------------------------------ day keys
\* zones west and east of Greenwich, and two with a change of offset
Zones ==
  { [before |-> o, after |-> o, change |-> 0] : o \in { -5, 0, 2, 13 } }
  \cup { [before |-> -4, after |-> -5, change |-> 174],
         [before |-> 1,  after |-> 2,  change |-> 169] }

\* the hours of a Sunday, a Monday and a Tuesday
Instants == 144 .. 215

InitKeys ==
  /\ Booted
  /\ \E zone \in Zones, t \in Instants :
       probe = [fn |-> "keys", done |-> FALSE, zone |-> zone, t |-> t]

\* _todayKey() and _weekKey() at an instant
Keys ==
  /\ probe.fn = "keys" /\ ~ probe.done
  /\ probe' = [fn |-> "keys", done |-> TRUE, zone |-> probe.zone,
               t |-> probe.t,
               out |-> [ today |-> _todayKey(probe.zone, probe.t),
                         week  |-> _weekKey(probe.zone, probe.t) ]]
  /\ Frame

SpecKeys == InitKeys /\ [][Keys]_vars

\* the daily record left in the store by an earlier day or by today
StoredStats ==
  { NullStats } \cup
  { [ date |-> d, totalFocusMinutes |-> m, sessionsCompleted |-> 2,
      totalTabSwitches |-> 1, totalDistractionVisits |-> 0,
      totalDistractionSeconds |-> 0, streak |-> k ] :
      d \in 3 .. 8, m \in { 0, 29, 30, 45 }, k \in { 0, 3 } }

InitDaily ==
  /\ Booted
  /\ \E zone \in Zones, t \in Instants, st \in StoredStats :
       probe = [fn |-> "getDailyStats", done |-> FALSE, zone |-> zone,
                t |-> t, stored |-> st]

DailyStats ==
  /\ probe.fn = "getDailyStats" /\ ~ probe.done
  /\ probe' = [fn |-> "getDailyStats", done |-> TRUE, zone |-> probe.zone,
               t |-> probe.t, stored |-> probe.stored,
               out |-> getDailyStats(probe.stored, probe.zone, probe.t)]
  /\ Frame

SpecDaily == InitDaily /\ [][DailyStats]_vars

\* the hours of a Sunday, a Monday and a Tuesday two weeks on
WeekInstants == 312 .. 383

\* how long ago, in hours, the stored weekly record was written: just now,
\* a day, a week or nine days ago
Ages == { 0, 24, 168, 216 }

\* the weekly record getWeeklyData left in the store at an earlier call,
\* with or without a bucket for the day it was written
StoredWeekly(zone, t) ==
  { NullWeekly } \cup
  { [ weekStart |-> _weekKey(zone, t - age), days |-> days ] :
      age \in Ages,
      days \in { NoDays } \cup { _todayKey(zone, t - a) :> 25 : a \in Ages } }

InitWeekly ==
  /\ Booted
  /\ \E zone \in Zones, t \in WeekInstants :
       \E st \in StoredWeekly(zone, t) :
         probe = [fn |-> "getWeeklyData", done |-> FALSE, zone |-> zone,
                  t |-> t, stored |-> st]

WeeklyData ==
  /\ probe.fn = "getWeeklyData" /\ ~ probe.done
  /\ probe' = [fn |-> "getWeeklyData", done |-> TRUE, zone |-> probe.zone,
               t |-> probe.t, stored |-> probe.stored,
               out |-> getWeeklyData(probe.stored, probe.zone, probe.t)]
  /\ Frame

SpecWeekly == InitWeekly /\ [][WeeklyData]_vars

\* ------------------------------------------------------------ patterns
\* The repository holds two insights engines: the one the service worker
\* imports and subscribes to session end, and the hardened one.
InsightsModules == { "features/insightsEngine/index.js", "InsightsEngine" }

\* session.startTime: a good one an hour before the call, and bad ones
StartTimes(t) ==
  { [kind |-> "number", v |-> t - 1], [kind |-> "number", v |-> 0],
    [kind |-> "number", v |-> -5], [kind |-> "missing", v |-> 0],
    [kind |-> "NaN", v |-> 0] }

\* what the store may hold for one array of the given length: a sound
\* array, a short one, one that is too long, one with a NaN cell
StoredArrays(len) ==
  { [ i \in 1 .. len |-> 2 ],
    << 1, 2 >>,
    [ i \in 1 .. len + 2 |-> 1 ],
    [ i \in 1 .. len |-> IF i = 5 THEN NaN ELSE 3 ] }

StoredPatterns ==
  { defaultPatterns } \cup
  { [ focusMinutesByHour |-> a, focusMinutesByDay |-> b,
      distractionByHour |-> a, sessionsByHour |-> a, scoresByHour |-> a ] :
      a \in StoredArrays(24), b \in StoredArrays(7) }

InitPatterns ==
  /\ Booted
  /\ \E engine \in InsightsModules, zone \in Zones, t \in { 150, 167, 190 } :
       \E ts \in StartTimes(t), st \in StoredPatterns :
         probe = [ fn |-> "recordPattern", done |-> FALSE, engine |-> engine,
                   zone |-> zone, t |-> t, stored |-> st, score |-> 85,
                   session |-> [ id |-> 1, startTime |-> ts,
                                 duration |-> 1500,
                                 distractionSeconds |-> 120 ] ]

\* the session-end handler the insights engine subscribed is dispatched and
\* records the session
RecordPattern ==
  /\ probe.fn = "recordPattern" /\ ~ probe.done
  /\ \E k \in 1 .. Len(emit("onSessionEnd", registry).calls) :
       emit("onSessionEnd", registry).calls[k] = InsightsHandler.id
  /\ probe' =
       [ fn |-> "recordPattern", done |-> TRUE, engine |-> probe.engine,
         zone |-> probe.zone, t |-> probe.t, stored |-> probe.stored,
         score |-> probe.score, session |-> probe.session,
         out |-> IF probe.engine = "features/insightsEngine/index.js"
                 THEN _recordPattern(probe.session, probe.score, probe.stored,
                                     probe.zone, probe.t)
                 ELSE recordPattern(probe.session, probe.score, probe.stored,
                                    probe.zone, probe.t) ]
  /\ Frame

SpecPatterns == InitPatterns /\ [][RecordPattern]_vars

\* ------------------------------------------------- a second bootstrap
\* The service worker calls bootstrap() when it is loaded, and the onStartup
\* listener calls it again before recover(): the feature modules subscribe
\* once more.  The pattern store is under observation: probe holds what is
\* stored and the calls of _recordPattern in flight.
InitBoot ==
  /\ Booted
  /\ probe = [ fn |-> "patterns", stored |-> defaultPatterns, recs |-> << >> ]

\* bootstrap() run by the onStartup listener
Bootstrap ==
  /\ Live = {}
  /\ nextHandler < FirstFreeHandler + 4 * MaxBoots
  /\ registry' = bootstrap(registry, nextHandler).registry
  /\ nextHandler' = bootstrap(registry, nextHandler).next
  /\ UNCHANGED << now, focusState, histVars, alarms, distVars, tasks,
                  nextId, overlaps, plugins, probe >>

\* the session of the timer model as _recordPattern sees it: started in the
\* hour of instant 150, in a zone on UTC
Recorder == [ zone |-> [before |-> 0, after |-> 0, change |-> 0],
              t |-> [kind |-> "number", v |-> 150] ]

\* _recordPattern: storage.getPatterns() answers one of the calls
RecordGet ==
  /\ probe.fn = "patterns"
  /\ \E i \in 1 .. Len(probe.recs) :
       /\ probe.recs[i].pc = "get"
       /\ probe' = [probe EXCEPT !.recs[i].pc = "set",
                                 !.recs[i].p = probe.stored]
  /\ Frame

\* _recordPattern: the cells are incremented and the object is stored
RecordSet ==
  /\ probe.fn = "patterns"
  /\ \E i \in 1 .. Len(probe.recs) :
       /\ probe.recs[i].pc = "set"
       /\ LET r == probe.recs[i]
              c == r.ended.session
          IN  probe' =
                [ fn |-> "patterns",
                  stored |-> _recordPattern(
                               [ startTime |-> Recorder.t,
                                 duration |-> c.duration,
                                 distractionSeconds |-> c.distractionSeconds ],
                               r.ended.score, r.p, Recorder.zone,
                               Recorder.t.v).stored,
                  recs |-> SubSeq(probe.recs, 1, i - 1)
                             \o SubSeq(probe.recs, i + 1, Len(probe.recs)) ]
  /\ Frame

StartBoot ==
  \E d \in Durations :
    /\ focusState.status = "idle"
    /\ MsgStart(1, MaxIds, d)

StepBoot(s) ==
  \/ StepBus(s)
  \/ RecoverGet(s) \/ RecoverRead(s) \/ RecoverWrite(s)

\* sessions run to their completion alarm or are found expired by
\* recover(), around runs of bootstrap()
NextBoot ==
  \/ Advance(MaxNow)
  \/ Bootstrap
  \/ StartBoot
  \/ OnAlarmComplete(1)
  \/ Startup(1)
  \/ \E s \in Slots : StepBoot(s)
  \/ RecordGet
  \/ RecordSet

SpecBoot == InitBoot /\ [][NextBoot]_vars

\* ------------------------------------------------------ start messages
\* msg.duration as any sender may put it: the lengths the popup offers, and
\* zero.  start() hands the value to createSession, patchState and
\* _setAlarms as it is.
MsgDurations == Durations \cup { 0 }

\* start messages of any duration, and the wake-ups of the sessions they
\* start
NextInputs ==
  \/ Advance(BusNow)
  \/ \E d \in MsgDurations : MsgStart(1, MaxIds, d)
  \/ OnAlarmComplete(1)
  \/ OnAlarmTick(1)
  \/ \E s \in Slots : StepLive(s)

SpecInputs == Init /\ [][NextInputs]_vars

\* --------------------------------------------------- suggestion inputs
\* a stored session that was scored, and one that was not
StoredSession(sc, dur) ==
  [ score |-> sc, duration |-> dur,
    startTime |-> [kind |-> "number", v |-> 150] ]

Unscored(dur) ==
  [ duration |-> dur, startTime |-> [kind |-> "number", v |-> 150] ]

\* histories of n scored sessions, the last three with one score and the
\* earlier ones with another, the last m of them an hour long, with or
\* without an unscored session at the end
Histories ==
  { [ k \in 1 .. n |->
        StoredSession(IF k > n - 3 THEN b ELSE a,
                      IF k > n - m THEN 3600 ELSE 1500) ] \o tail :
      n \in { 0, 3, 4, 5, 6, 7 }, m \in 0 .. 7, a \in { 50, 65 },
      b \in { 39, 40, 50, 60, 61, 65 },
      tail \in { << >>, << Unscored(3600) >> } }

\* a stored patterns object without its arrays
NoArrays == [ f \in {} |-> << >> ]

PatternReads ==
  { ReadFails, Answer(NoArrays) } \cup
  { Answer([ focusMinutesByHour |-> fh, focusMinutesByDay |-> fd,
             distractionByHour |-> dh, sessionsByHour |-> Zeros(24),
             scoresByHour |-> Zeros(24) ]) :
      fh \in { Zeros(24), [Zeros(24) EXCEPT ![10] = 25, ![15] = 25] },
      dh \in { Zeros(24), [Zeros(24) EXCEPT ![15] = 5],
               [Zeros(24) EXCEPT ![15] = 6] },
      fd \in { Zeros(7), [Zeros(7) EXCEPT ![3] = 25] } }

HistoryReads == { ReadFails } \cup { Answer(h) : h \in Histories }

InitSuggestions ==
  /\ Booted
  /\ \E engine \in InsightsModules, pr \in PatternReads, hr \in HistoryReads :
       probe = [ fn |-> "getSuggestions", done |-> FALSE, engine |-> engine,
                 patterns |-> pr, history |-> hr ]

\* the getSuggestions message: generateSuggestions() runs over the two
\* reads and the listener answers the caller; nothing is written
GetSuggestions ==
  /\ probe.fn = "getSuggestions" /\ ~ probe.done
  /\ LET result == IF probe.engine = "features/insightsEngine/index.js"
                   THEN generateSuggestions(probe.patterns, probe.history)
                   ELSE InsightsEngine_generateSuggestions(probe.patterns,
                                                           probe.history)
     IN  probe' = [ fn |-> "getSuggestions", done |-> TRUE,
                    engine |-> probe.engine, patterns |-> probe.patterns,
                    history |-> probe.history, out |-> result,
                    response |-> getSuggestions(result) ]
  /\ Frame

SpecSuggestions == InitSuggestions /\ [][GetSuggestions]_vars

\* ------------------------------------------------------------ the claims
Persisted == << focusState, sessions, stats, weekly, emitted >>

\* the task that takes the step, when one does
Took(s) == tasks[s].pc # "idle" /\ tasks'[s] # tasks[s]

\* C1: in every reachable state, status = idle implies that currentSession
\* is absent.
C1_IdleHasNoSession ==
  focusState.status = "idle" => focusState.currentSession.id = 0

\* C2: every change of status is idle -> running by start, running -> paused
\* by pause, paused -> running by resume, running -> idle by complete or
\* reset, or paused -> idle by reset.
C2_Transitions ==
  [][ \A s \in Slots :
        (Took(s) /\ focusState'.status # focusState.status) =>
          LET from == focusState.status
              to   == focusState'.status
              op   == tasks[s].op
          IN  \/ from = "idle"    /\ to = "running" /\ op = "start"
              \/ from = "running" /\ to = "paused"  /\ op = "pause"
              \/ from = "paused"  /\ to = "running" /\ op = "resume"
              \/ from = "running" /\ to = "idle"
                   /\ op \in {"alarmComplete", "alarmTick", "startup", "reset"}
              \/ from = "paused"  /\ to = "idle"    /\ op = "reset" ]_vars

\* completeSession calls for session id i: entries stored and entries on
\* their way into the history
Finalizations(i) ==
  Cardinality({ k \in DOMAIN sessions : sessions[k].id = i })
    + Cardinality({ s \in Appending : tasks[s].ses.id = i })

\* C3: each session is finalized at most once: the history never holds two
\* entries with one session id, and completeSession never runs twice for one
\* session id.
C3_FinalizedOnce ==
  \A i \in 1 .. MaxIds + 1 : Finalizations(i) <= 1

\* C4: a completion or tick wake-up that finds status other than running
\* changes nothing of the stored state, the history, the statistics or the
\* pending reflection, and emits no session-end or score-calculated event.
C4_StaleWakeIsNoop ==
  [][ \A s \in Slots :
        /\ ( /\ Took(s)
             /\ tasks[s].op = "alarmComplete"
             /\ tasks[s].pc # "c_get"
             /\ tasks[s].seen # "running" ) => UNCHANGED Persisted
        /\ ( /\ Took(s)
             /\ tasks[s].pc = "tick_get"
             /\ focusState.status # "running" )
             => (UNCHANGED Persisted /\ tasks'[s].pc = "idle") ]_vars

\* C5: when complete() finalizes a session while a distraction interval is
\* open, the entry it scores and appends already holds the interval's
\* seconds; and when complete() or reset() has ended, no interval is open.
C5_FlushBeforeFinalize ==
  [][ \A s \in Slots :
        /\ (Took(s) /\ tasks[s].pc = "c_get" /\ focusState.currentSession.id # 0) =>
             LET open == IF distractionStart = -1 THEN 0
                         ELSE RoundSec(now - distractionStart)
                 full == addDistractionTime(focusState.currentSession, open)
             IN  /\ tasks'[s].ses.distractionSeconds = full.distractionSeconds
                 /\ tasks'[s].ses.score = score(full).score
        /\ (Took(s) /\ tasks[s].pc \in {"c_write", "reset_write"}) =>
             distractionStart' = -1 ]_vars

\* C6: when pause() returns, no distraction interval is open.
C6_PauseFlushes ==
  [][ \A s \in Slots :
        (Took(s) /\ tasks[s].pc = "pause_write") => distractionStart' = -1 ]_vars

\* C7: in every reachable state remaining is within [0, duration].
C7_RemainingInRange ==
  /\ focusState.remaining >= 0
  /\ focusState.remaining <= focusState.duration

C7_Witness ==
  /\ focusState.status = "paused"
  /\ focusState.remaining > 0
  /\ focusState.remaining < focusState.duration

C9_PauseResume ==
  [][ /\ focusState'.status = "paused" =>
           focusState'.remaining =
             Max(0, focusState'.duration - focusState'.elapsedBeforePause)
      /\ \A s \in Slots :
           /\ (Took(s) /\ tasks[s].pc = "resume_write") =>
                /\ focusState'.status = "running"
                /\ focusState'.remaining = focusState.remaining
                /\ focusState'.elapsedBeforePause = focusState.elapsedBeforePause
                /\ focusState'.startedAt = now
           /\ (Took(s) /\ tasks[s].pc = "tick_write") =>
                focusState'.remaining =
                  Max(0, Max(0, focusState.duration
                                  - focusState.elapsedBeforePause)
                           - FloorSec(now - focusState.startedAt)) ]_vars

\* a tick after a resume, with seconds run before the pause and the clock
\* past the resume
C9_Witness ==
  \E s \in Slots :
    /\ tasks[s].pc = "tick_write"
    /\ focusState.status = "running"
    /\ focusState.elapsedBeforePause > 0
    /\ now > focusState.startedAt
    /\ focusState.currentSession.interrupted

\* C10: when recover() finds the running session expired and completes it,
\* the history then holds exactly one entry for it, status is idle and the
\* pending reflection is that session's.
C10_RecoverCompletesOnce ==
  [][ \A s \in Slots :
        (Took(s) /\ tasks[s].op = "startup" /\ tasks[s].pc = "c_write") =>
          /\ Cardinality({ k \in DOMAIN sessions' :
                             sessions'[k].id = tasks[s].ses.id }) = 1
          /\ sessions'[Len(sessions')].completed
          /\ focusState'.status = "idle"
          /\ focusState'.pendingReflection.sessionId = tasks[s].ses.id ]_vars

Settles(s) ==
  /\ Took(s)
  /\ tasks[s].seen = "running"
  /\ tasks[s].pc = "c_write" \/ tasks[s].op = "onSessionEnd"
  /\ \A r \in Slots : tasks'[r].pc = "idle"

\* C12: after complete() of a running session the stored state is idle with
\* no current session, remaining equal to the unchanged duration, and a
\* pending reflection carrying the id, score, label and duration of the
\* history entry this completion appended.
C12_CompletePostState ==
  [][ \A s \in Slots :
        Settles(s) =>
          LET e == sessions'[Len(sessions')]
          IN  /\ focusState'.status = "idle"
              /\ focusState'.currentSession = NullSession
              /\ focusState'.duration = focusState.duration
              /\ focusState'.remaining = focusState'.duration
              /\ focusState'.pendingReflection =
                   [ sessionId |-> e.id, score |-> e.score,
                     qualityLabel |-> e.qualityLabel,
                     duration |-> e.duration ] ]_vars

\* C13: a running session that is never paused or reset is completed in the
\* end, its entry in the history and status idle, although the completion
\* alarm is lost and ticks come late, as long as ticks keep coming and the
\* clock advances.
C13_EventuallyCompleted ==
  \A i \in 1 .. MaxIds :
    (focusState.status = "running" /\ focusState.currentSession.id = i)
      ~> ( /\ focusState.status = "idle"
           /\ \E k \in DOMAIN sessions :
                sessions[k].id = i /\ sessions[k].completed )

\* a late tick finds the session expired, the completion alarm overdue and
\* never delivered
C13_Witness ==
  \E s \in Slots :
    /\ tasks[s].pc = "tick_write"
    /\ tasks[s].n = 0
    /\ focusState.status = "running"
    /\ alarms.focusComplete # -1
    /\ now > alarms.focusComplete

\* C14: while one session stays current, its tabSwitchCount,
\* distractionVisits and distractionSeconds are non-negative and no step
\* lowers any of them.
C14_CountersMonotone ==
  [][ LET old == focusState.currentSession
          new == focusState'.currentSession
      IN  (old.id # 0 /\ new.id = old.id) =>
            /\ new.tabSwitchCount >= old.tabSwitchCount
            /\ new.distractionVisits >= old.distractionVisits
            /\ new.distractionSeconds >= old.distractionSeconds
            /\ new.tabSwitchCount >= 0
            /\ new.distractionVisits >= 0
            /\ new.distractionSeconds >= 0 ]_vars

\* C15: once the current session is marked interrupted it stays so in every
\* later state in which it is current, and the entry finalized from it is
\* marked interrupted.
C15_InterruptedSticky ==
  [][ /\ LET old == focusState.currentSession
             new == focusState'.currentSession
         IN  (old.id # 0 /\ new.id = old.id /\ old.interrupted)
               => new.interrupted
      /\ \A s \in Slots :
           ( /\ Took(s)
             /\ tasks[s].pc = "c_get"
             /\ focusState.currentSession.interrupted )
             => tasks'[s].ses.interrupted ]_vars

\* task s calls enterDistraction in this step
CallsEnter(s) == tasks[s].pc # "E_get" /\ tasks'[s].pc = "E_get"

\* C16: enterDistraction called while no session is current records no
\* interval start and no tab id, and leaves the stored state as it is.
C16_EnterWithoutSession ==
  [][ \A s \in Slots :
        (CallsEnter(s) /\ focusState.currentSession.id = 0) =>
          /\ distractionStart' = distractionStart
          /\ distractionTabId' = distractionTabId
          /\ focusState' = focusState ]_vars

\* task s gets past the guard of _leaveDistraction in this step
StartsLeave(s) == tasks[s].pc # "L_get" /\ tasks'[s].pc = "L_get"

\* C17: leaveDistraction with no interval open does nothing; with one open
\* it closes the interval at once, so that a second call, in a row or
\* interleaved, does nothing, and adds the interval's seconds to the session
\* once.
C17_LeaveIdempotent ==
  [][ \A s \in Slots :
        /\ StartsLeave(s) =>
             /\ distractionStart # -1
             /\ distractionStart' = -1
             /\ tasks'[s].n = RoundSec(now - distractionStart)
        /\ (Took(s) /\ tasks[s].pc = "L_get"
                    /\ focusState.currentSession.id # 0) =>
             /\ tasks'[s].patch.currentSession.distractionSeconds =
                  focusState.currentSession.distractionSeconds + tasks[s].n
             /\ UNCHANGED << focusState, distVars >>
        /\ (Took(s) /\ tasks[s].pc = "L_write") =>
             /\ focusState'.currentSession = tasks[s].patch.currentSession
             /\ UNCHANGED distVars ]_vars

\* a call is about to add a second to the session, the interval already
\* closed for any further call
C17_Witness ==
  \E s \in Slots :
    /\ tasks[s].pc = "L_write"
    /\ tasks[s].n > 0
    /\ distractionStart = -1
    /\ focusState.currentSession.id # 0
\* the handlers of a hook, none of which unsubscribes while it is called
Steady(hook) ==
  \A k \in 1 .. Len(registry[hook]) : registry[hook][k].fn # "unsubscribes"

Called(hook, id) ==
  \E k \in 1 .. Len(emit(hook, registry).calls) :
    emit(hook, registry).calls[k] = id

\* C18: a handler that throws during emit does not keep a handler registered
\* after it on the same hook from running and does not reach the emitter; a
\* plugin handler that throws on session end does not make complete() fail,
\* and the timer state still ends idle with the session in the history.
C18_ThrowContained ==
  [][ /\ \A hook \in HOOKS :
           /\ ~ emit(hook, registry).propagated
           /\ Steady(hook) =>
                \A i, j \in 1 .. Len(registry[hook]) :
                  (i < j /\ registry[hook][i].fn = "throws")
                    => Called(hook, registry[hook][j].id)
      /\ \A s \in Slots :
           /\ (tasks[s].pc = "c_weekly" /\ Took(s))
                => /\ tasks'[s].pc = "c_read"
                   /\ emitted'.onSessionEnd = emitted.onSessionEnd + 1
           /\ (tasks[s].pc = "c_write" /\ Took(s))
                => /\ focusState'.status = "idle"
                   /\ \E k \in 1 .. Len(sessions') :
                        /\ sessions'[k].id = tasks[s].patch.pendingReflection.sessionId
                        /\ sessions'[k].completed
    ]_vars

\* complete() has just emitted session end to a plugin handler that throws,
\* with another handler registered after it
C18_Witness ==
  \E s \in Slots :
    /\ tasks[s].pc = "c_read"
    /\ \E i, j \in 1 .. Len(registry["onSessionEnd"]) :
         /\ i < j
         /\ registry["onSessionEnd"][i].fn = "throws"
         /\ registry["onSessionEnd"][i].source \in { "alpha", "beta" }
    /\ Steady("onSessionEnd")

\* C19: a handler whose failure is a rejected promise is caught by the bus
\* like a thrown error: it is logged with the plugin name and the hook name,
\* dispatch continues, and no rejection is left unhandled.
C19_RejectionCaught ==
  \A hook \in HOOKS :
    LET e == emit(hook, registry)
    IN  /\ e.unhandled = << >>
        /\ ~ e.propagated
        /\ \A k \in 1 .. Len(registry[hook]) :
             ( /\ registry[hook][k].fn \in { "throws", "rejects" }
               /\ Called(hook, registry[hook][k].id) )
               => \E m \in 1 .. Len(e.logged) :
                    e.logged[m] = << registry[hook][k].source, hook >>

\* C20: emit(hook, payload) calls every handler registered for the hook at
\* that moment exactly once, in registration order, before it returns, and
\* returns the number of handlers called; 0 for a hook without handlers or
\* an unknown hook.
C20_EmitCallsAll ==
  /\ \A hook \in HOOKS :
       LET e == emit(hook, registry)
       IN  /\ e.calls = [ k \in 1 .. Len(registry[hook]) |-> registry[hook][k].id ]
           /\ e.returned = Len(e.calls)
  /\ emit("bogus", registry).calls = << >>
  /\ emit("bogus", registry).returned = 0

\* the entries of a hook map that name a hook and hold a function
Registrable(plugin) ==
  SelectSeq(plugin.hooks, LAMBDA e : e.hook \in HOOKS /\ e.fn # "notfn")

\* C21: registerPlugin returns false and leaves the registry and the plugin
\* table as they were when the name is already registered or the descriptor
\* lacks name or version; otherwise it returns true, registers the handlers
\* of known hook names in map order and skips unknown hook names and
\* entries that are not functions.
C21_RegisterPlugin ==
  \A plugin \in Plugins :
    LET r    == registerPlugin(registry, plugins, nextHandler, plugin)
        kept == Registrable(plugin)
    IN  IF plugin.name = "" \/ plugin.version = "" \/ plugin.name \in plugins
        THEN /\ ~ r.ok
             /\ r.registry = registry
             /\ r.plugins = plugins
        ELSE /\ r.ok
             /\ r.plugins = plugins \cup { plugin.name }
             /\ \A hook \in HOOKS :
                  LET mine == SelectSeq(kept, LAMBDA e : e.hook = hook)
                  IN  /\ Len(r.registry[hook]) = Len(registry[hook]) + Len(mine)
                      /\ SubSeq(r.registry[hook], 1, Len(registry[hook]))
                           = registry[hook]
                      /\ \A k \in 1 .. Len(mine) :
                           LET h == r.registry[hook][Len(registry[hook]) + k]
                           IN  h.source = plugin.name /\ h.fn = mine[k].fn
             /\ \A k \in 1 .. Len(kept) :
                  \E m \in 1 .. Len(r.registry[kept[k].hook]) :
                    r.registry[kept[k].hook][m] =
                      [ id |-> nextHandler + k - 1, source |-> plugin.name,
                        fn |-> kept[k].fn ]

\* plugin alpha is registered with a handler on session end, so a second
\* registration under that name is a duplicate, while beta is still free
C21_Witness ==
  /\ plugins = { "alpha" }
  /\ \E k \in 1 .. Len(registry["onSessionEnd"]) :
       registry["onSessionEnd"][k].source = "alpha"
  /\ \E k \in 1 .. Len(registry["onScoreCalculated"]) :
       registry["onScoreCalculated"][k].source = "alpha"

Scored == probe.fn = "score" /\ probe.done

\* C22: score(session).score is 100 - 5 * tabSwitchCount
\* - 10 * distractionVisits - round(distractionSeconds / 60), plus 10 when
\* the session was not interrupted, clamped to 0 .. 100, missing fields
\* counting as 0; (2, 1, 180, interrupted) gives 77 and a session without
\* switches, distractions and pauses gives 100.
C22_ScoreFormula ==
  Scored =>
    LET m     == probe.arg
        get(f) == IF f \in DOMAIN m THEN m[f] ELSE 0
        paused == IF "interrupted" \in DOMAIN m THEN m["interrupted"] ELSE FALSE
        mins  == CHOOSE q \in 0 .. 200 :
                   /\ 2 * (60 * q) - 60 <= 2 * get("distractionSeconds")
                   /\ 2 * get("distractionSeconds") < 2 * (60 * q) + 60
        total == 100 - 5 * get("tabSwitchCount")
                     - 10 * get("distractionVisits") - mins
                     + (IF paused THEN 0 ELSE 10)
        want  == IF total < 0 THEN 0 ELSE IF total > 100 THEN 100 ELSE total
    IN  /\ probe.out.score = want
        /\ probe.out.score \in 0 .. 100
        /\ ( get("tabSwitchCount") = 2 /\ get("distractionVisits") = 1
             /\ get("distractionSeconds") = 180 /\ paused )
             => probe.out.score = 77
        /\ ( get("tabSwitchCount") = 0 /\ get("distractionVisits") = 0
             /\ get("distractionSeconds") = 0 /\ ~ paused )
             => probe.out.score = 100

\* the worked example has been scored
C22_Witness ==
  /\ Scored
  /\ DOMAIN probe.arg = { "tabSwitchCount", "distractionVisits",
                          "distractionSeconds", "interrupted" }
  /\ probe.arg["tabSwitchCount"] = 2 /\ probe.arg["distractionVisits"] = 1
  /\ probe.arg["distractionSeconds"] = 180 /\ probe.arg["interrupted"]
  /\ probe.out.score = 77

\* the metrics m with d more in field f
Raised(m, f, d) ==
  [ g \in DOMAIN m \cup { f } |->
      IF g = f THEN (IF f \in DOMAIN m THEN m[f] ELSE 0) + d ELSE m[g] ]

\* C23: the score does not increase when tabSwitchCount, distractionVisits
\* or distractionSeconds grows while the other fields stay as they are.
C23_ScoreMonotone ==
  Scored =>
    \A f \in { "tabSwitchCount", "distractionVisits", "distractionSeconds" } :
      \A d \in { 1, 2, 29, 30, 60, 600, 6000 } :
        /\ score(Raised(probe.arg, f, d)).score <= probe.out.score
        /\ \A e \in { 1, 31, 600 } :
             score(Raised(Raised(probe.arg, f, d), f, e)).score
               <= score(Raised(probe.arg, f, d)).score

\* a score strictly inside the range has been computed, so that one more
\* switch, visit or distracted minute lowers it
C23_Witness ==
  /\ Scored
  /\ probe.out.score = 50
  /\ score(Raised(probe.arg, "tabSwitchCount", 1)).score = 45
  /\ score(Raised(probe.arg, "distractionVisits", 1)).score = 40
  /\ score(Raised(probe.arg, "distractionSeconds", 60)).score = 49

\* the label the tiers give a score, boundary by boundary
LabelOf(x) ==
  IF x >= 90 THEN "Deep Work"
  ELSE IF x >= 70 THEN "Focused"
  ELSE IF x >= 40 THEN "Fragmented"
  ELSE "Distracted"

\* C24: the quality label is a total function of the score: 90 and above is
\* Deep Work, 70 .. 89 Focused, 40 .. 69 Fragmented, 0 .. 39 Distracted; and
\* the label stored on a finalized session is the label of its stored score.
C24_LabelOfScore ==
  /\ probe.fn \in { "score", "completeSession" } =>
       \A x \in 0 .. 100 : getTier(x).label = LabelOf(x)
  /\ Scored => probe.out.qualityLabel = LabelOf(probe.out.score)
  /\ (probe.fn = "completeSession" /\ probe.done) =>
       /\ probe.out.completed
       /\ probe.out.score = score(probe.arg).score
       /\ probe.out.qualityLabel = LabelOf(probe.out.score)

\* a session has been finalized with a score on a tier boundary
C24_Witness ==
  /\ probe.fn = "completeSession" /\ probe.done
  /\ probe.out.score = 90
  /\ probe.out.qualityLabel = "Deep Work"
  /\ probe.arg.distractionVisits = 2

\* C25: the session history never holds more than 200 entries; appending
\* to a full history evicts the oldest entry, keeps the order of the others
\* and leaves the newly finalized session last.
C25_HistoryCapped ==
  [][ /\ Len(sessions') <= 200
      /\ \A s \in Slots :
           (tasks[s].pc = "c_sess_write" /\ Took(s)) =>
             /\ sessions'[Len(sessions')] = tasks[s].ses
             /\ Len(sessions) < 200 => sessions' = Append(sessions, tasks[s].ses)
             /\ Len(sessions) = 200 =>
                  /\ Len(sessions') = 200
                  /\ \A k \in 1 .. 199 : sessions'[k] = sessions[k + 1]
    ]_vars

\* two sessions have been appended to a full history
C25_Witness ==
  /\ Len(sessions) = 200
  /\ sessions[1].id = 3
  /\ sessions[199].id = 201
  /\ sessions[200].id = 202

\* C27: the day key and the week anchor are computed from the local
\* calendar date: at every instant and UTC offset the day key is the local
\* date of the instant and the week anchor the local date of the Monday of
\* its local week.
C27_KeysAreLocal ==
  (probe.fn = "keys" /\ probe.done) =>
    LET date   == localDate(probe.zone, probe.t)
        monday == date - (date % 7)
    IN  /\ probe.out.today = date
        /\ probe.out.week = monday

\* C26: getDailyStats returns the stored record unchanged when its date is
\* today's; otherwise it stores and returns an all-zero record for today
\* whose streak is the previous record's streak plus one when that record
\* is of the day before today and has at least 30 focus minutes, and 0
\* otherwise, also when there is no previous record or it is older.
C26_DailyRollover ==
  (probe.fn = "getDailyStats" /\ probe.done) =>
    LET today == isoDate(probe.t)
        prev  == probe.stored
        out   == probe.out
    IN  IF prev # NullStats /\ prev.date = today
        THEN out.returned = prev /\ out.stored = prev
        ELSE /\ out.stored = out.returned
             /\ out.returned =
                  [ date |-> today, totalFocusMinutes |-> 0,
                    sessionsCompleted |-> 0, totalTabSwitches |-> 0,
                    totalDistractionVisits |-> 0,
                    totalDistractionSeconds |-> 0,
                    streak |-> IF /\ prev # NullStats
                                  /\ prev.date = today - 1
                                  /\ prev.totalFocusMinutes >= 30
                               THEN prev.streak + 1 ELSE 0 ]

Recorded == probe.fn = "recordPattern" /\ probe.done

\* C29: recordPattern with a session.startTime that is not a positive
\* finite number leaves the pattern store unchanged and never puts the
\* current time in its place, also when it is reached through the
\* session-end subscription of the service worker.
C29_BadStartRejected ==
  (Recorded /\ ~ ( /\ probe.session.startTime.kind = "number"
                   /\ probe.session.startTime.v > 0 )) =>
    /\ ~ probe.out.wrote
    /\ probe.out.stored = probe.stored
    /\ probe.out.at # probe.t

\* the cells of a stored array as they count: exact length, 0 for a cell
\* that is missing or holds no finite number
Clean(arr, len) ==
  [ i \in 1 .. len |-> IF i <= Len(arr) /\ arr[i] >= 0 THEN arr[i] ELSE 0 ]

\* C30: after a recordPattern call that writes, the five stored arrays have
\* the lengths 24, 7, 24, 24, 24 and hold only finite numbers, whatever was
\* stored before, and exactly the cells of the start hour and the start
\* weekday are incremented, sessionsByHour by exactly 1.
C30_PatternsNormalized ==
  (Recorded /\ probe.out.wrote) =>
    LET new  == probe.out.stored
        old  == probe.stored
        hour == ((probe.out.at + offsetAt(probe.zone, probe.out.at)) % 24) + 1
        day  == ((((probe.out.at + offsetAt(probe.zone, probe.out.at)) \div 24) + 1) % 7) + 1
    IN  /\ Len(new.focusMinutesByHour) = 24 /\ Len(new.focusMinutesByDay) = 7
        /\ Len(new.distractionByHour) = 24 /\ Len(new.sessionsByHour) = 24
        /\ Len(new.scoresByHour) = 24
        /\ \A f \in DOMAIN new : \A i \in 1 .. Len(new[f]) : new[f][i] >= 0
        /\ \A i \in 1 .. 24 :
             /\ new.sessionsByHour[i] =
                  Clean(old.sessionsByHour, 24)[i] + (IF i = hour THEN 1 ELSE 0)
             /\ i # hour =>
                  /\ new.focusMinutesByHour[i] = Clean(old.focusMinutesByHour, 24)[i]
                  /\ new.distractionByHour[i] = Clean(old.distractionByHour, 24)[i]
                  /\ new.scoresByHour[i] = Clean(old.scoresByHour, 24)[i]
        /\ \A i \in 1 .. 7 :
             i # day => new.focusMinutesByDay[i] = Clean(old.focusMinutesByDay, 7)[i]
        /\ new.focusMinutesByHour[hour] > Clean(old.focusMinutesByHour, 24)[hour]
        /\ new.focusMinutesByDay[day] > Clean(old.focusMinutesByDay, 7)[day]

Suggested == probe.fn = "getSuggestions" /\ probe.done

\* the arithmetic mean of the scores of a non-empty list, times its length
Total(list) ==
  LET RECURSIVE upto(_)
      upto(k) == IF k = 0 THEN 0 ELSE list[k]["score"] + upto(k - 1)
  IN  upto(Len(list))

C32_SuggestionsNeverThrow ==
  Suggested =>
    /\ ~ probe.out.threw
    /\ DOMAIN probe.response = { "suggestions" }
    /\ ( \/ ~ probe.patterns.ok
         \/ ~ probe.history.ok
         \/ DOMAIN probe.patterns.value = {} )
         => /\ probe.out.list = << >>
            /\ probe.response = [ suggestions |-> << >> ]

\* C33: start(duration) with an invalid duration (zero, negative, absent or
\* not a number) is rejected or replaced by a default, so that in every
\* reachable state the stored duration is an integer greater than 0 and
\* remaining is a number.
C33_DurationValid ==
  /\ focusState.duration \in Int
  /\ focusState.duration > 0
  /\ focusState.remaining \in Int

\* C34: start(duration) from idle stores status running, remaining and
\* duration as given, startedAt now, elapsedBeforePause 0, no pending
\* reflection, and a new session with zeroed counters that is not
\* interrupted; it schedules the completion and the tick wake-up and emits
\* session-start before focus-mode-enabled.
C34_StartFromIdle ==
  [][ \A s \in Slots :
        ( /\ Took(s)
          /\ tasks[s].pc = "start_write"
          /\ focusState.status = "idle" ) =>
          LET d   == tasks[s].n
              new == focusState'.currentSession
          IN  /\ focusState'.status = "running"
              /\ focusState'.duration = d
              /\ focusState'.remaining = d
              /\ focusState'.startedAt = now
              /\ focusState'.pausedAt = -1
              /\ focusState'.elapsedBeforePause = 0
              /\ focusState'.pendingReflection = NullReflection
              /\ new.id # 0
              /\ new.id # focusState.currentSession.id
              /\ \A k \in 1 .. Len(sessions) : sessions[k].id # new.id
              /\ new.startTime = now
              /\ new.duration = d
              /\ new.tabSwitchCount = 0
              /\ new.distractionVisits = 0
              /\ new.distractionSeconds = 0
              /\ ~ new.interrupted
              /\ alarms'.focusComplete = now + 2 * d
              /\ alarms'.focusTick
              /\ emitted'.order = << "onSessionStart", "onFocusModeEnabled" >>
    ]_vars

\* a second session has been started over the reflection the completion of
\* the first one left pending
C34_Witness ==
  /\ focusState.status = "running"
  /\ focusState.currentSession.id = 2
  /\ focusState.startedAt = now
  /\ focusState.pendingReflection = NullReflection
  /\ Len(sessions) = 1
  /\ sessions[1].id = 1
  /\ alarms.focusTick
  /\ emitted.order = << "onSessionStart", "onFocusModeEnabled" >>

\* C35: an active-tab change while the status is running adds exactly 1 to
\* the current session's tabSwitchCount, closes an open distraction interval
\* and adds its seconds, and then opens a new interval, with one more visit,
\* exactly when the URL of the newly active tab is distracting; while the
\* status is idle or paused the listener changes nothing, also when the
\* status changed after the listener's first check.
C35_TabSwitch ==
  [][ \A s \in Slots :
        (Took(s) /\ tasks[s].op = "tab") =>
          /\ focusState.status # "running" =>
               /\ focusState' = focusState
               /\ UNCHANGED distVars
          /\ (tasks[s].pc = "tab_write" /\ focusState.status = "running") =>
               /\ focusState' =
                    [focusState EXCEPT !.currentSession.tabSwitchCount = @ + 1]
               /\ distractionStart' = -1
               /\ distractionStart # -1 =>
                    /\ tasks'[s].pc = "L_get"
                    /\ tasks'[s].n = RoundSec(now - distractionStart)
          /\ (tasks[s].pc = "L_write" /\ focusState.status = "running") =>
               focusState' =
                 [focusState EXCEPT
                    !.currentSession.distractionSeconds = @ + tasks[s].n]
          /\ (tasks[s].pc = "tab_url" /\ focusState.status = "running") =>
               /\ tasks'[s].pc = "E_get" <=>
                    isDistracting(tasks'[s].url, DEFAULT_SITES)
               /\ tasks'[s].pc = "E_get" =>
                    distractionStart' = now /\ distractionTabId' = tasks[s].tab
               /\ tasks'[s].pc # "E_get" => UNCHANGED distVars
          /\ (tasks[s].pc = "E_write" /\ focusState.status = "running") =>
               focusState' =
                 [focusState EXCEPT
                    !.currentSession.distractionVisits = @ + 1,
                    !.currentSession.lastDistractionDomain =
                       extractDomain(tasks[s].url)] ]_vars

\* C36: the scheduled wake-ups follow the status: when pause(), reset() or
\* complete() has written, neither the completion nor the tick wake-up is
\* scheduled; when start(), resume() or a recover() that found time
\* remaining has written, both are scheduled, the completion wake-up for the
\* stored remaining seconds (the duration after start).
C36_AlarmsTrackStatus ==
  [][ \A s \in Slots :
        Took(s) =>
          /\ tasks[s].pc \in { "pause_write", "reset_write", "c_write" } =>
               /\ alarms'.focusComplete = -1
               /\ ~ alarms'.focusTick
          /\ tasks[s].pc = "start_write" =>
               /\ alarms'.focusComplete = now + 2 * focusState'.duration
               /\ alarms'.focusTick
          /\ tasks[s].pc \in { "resume_write", "recover_write" } =>
               /\ alarms'.focusComplete = now + 2 * focusState'.remaining
               /\ alarms'.focusTick ]_vars

\* C37: recover() leaves everything as it is, with no write and no wake-up
\* scheduled, when the status is not running; when it is running with time
\* remaining, recover() stores remaining = duration - elapsed and schedules
\* the wake-ups, and leaves startedAt, elapsedBeforePause and the current
\* session alone, so that a later tick computes what it would have computed
\* without the restart.
C37_RecoverFrame ==
  [][ \A s \in Slots :
        (Took(s) /\ tasks[s].op = "startup") =>
          /\ tasks[s].pc = "recover_get" =>
               /\ focusState' = focusState
               /\ UNCHANGED histVars
               /\ focusState.status # "running" =>
                    /\ tasks'[s].pc = "idle"
                    /\ alarms' = alarms
          /\ tasks[s].pc = "recover_read" =>
               UNCHANGED << focusState, histVars, alarms >>
          /\ tasks[s].pc = "recover_write" =>
               LET left == focusState.duration
                             - ((now - focusState.startedAt) \div 2
                                  + focusState.elapsedBeforePause)
               IN  /\ left > 0
                   /\ focusState' = [focusState EXCEPT !.remaining = left]
                   /\ focusState'.startedAt = focusState.startedAt
                   /\ focusState'.elapsedBeforePause
                        = focusState.elapsedBeforePause
                   /\ focusState'.currentSession = focusState.currentSession
                   /\ alarms' = [focusComplete |-> now + 2 * left,
                                 focusTick |-> TRUE]
                   /\ UNCHANGED histVars
                   /\ \A t \in now .. MaxNow :
                        tickRemaining(focusState', t)
                          = tickRemaining(focusState, t) ]_vars

\* recover() has just rescheduled a session that ran a second, was paused
\* and was resumed before the restart
C37_Witness ==
  /\ Live = {}
  /\ focusState.status = "running"
  /\ focusState.elapsedBeforePause = 1
  /\ focusState.startedAt < now
  /\ focusState.remaining = 1
  /\ alarms.focusComplete = now + 2

\* C38: each completed session is folded into the pattern store exactly
\* once: sessionsByHour grows by exactly 1 with every completion, also after
\* the onStartup listener has run bootstrap() a second time and the feature
\* modules have subscribed to session end again.
C38_FoldedOnce ==
  (probe.fn = "patterns" /\ probe.recs = << >>) =>
    LET cells == probe.stored.sessionsByHour
        RECURSIVE total(_)
        total(k) == IF k = 0 THEN 0 ELSE cells[k] + total(k - 1)
    IN  total(Len(cells)) = emitted.onSessionEnd

\* ------------------------------------------------------------ two visits
\* One session of two seconds and the navigations committed while it runs.
StartVisits ==
  /\ focusState.status = "idle"
  /\ MsgStart(1, ConcIds, 2)

StepVisits(s) ==
  \/ StartWrite(s)
  \/ NavSites(s)
  \/ EnterGet(s) \/ EnterRead(s) \/ EnterWrite(s)
  \/ LeaveGet(s) \/ LeaveRead(s) \/ LeaveWrite(s)

NextVisits ==
  \/ Advance(MaxNow)
  \/ StartVisits
  \/ \E tab \in Tabs, url \in Urls : NavAdmit(1, tab, url, TwoVisits)
  \/ \E s \in Slots : StepVisits(s)

SpecVisits == Init /\ [][NextVisits]_vars

\* task s adds the seconds it took from the tracker to the current session
Charges(s) == tasks[s].pc = "L_get" /\ tasks'[s].pc = "L_read"

\* C39: the seconds of an interval are charged to a session only when the
\* interval was opened within that session: what _leaveDistraction adds is
\* never more than the seconds, rounded, that have passed since the
\* session's startTime, so distractionSeconds stays within the session's
\* wall-clock time.
C39_ChargedWithinSession ==
  [][ \A s \in Slots :
        Charges(s) =>
          tasks[s].n <= RoundSec(now - focusState.currentSession.startTime)
    ]_vars

\* C40: an open distraction interval is never overwritten: while an interval
\* is open its start stays as it is until the interval is closed, so that
\* enterDistraction never replaces the start of an interval whose seconds
\* have not been added to the session.
C40_IntervalNotOverwritten ==
  [][ distractionStart # -1 =>
        distractionStart' \in { distractionStart, -1 } ]_vars

====
